---- MODULE Spec2Model ----
(***************************************************************************)
(* Data-quality pipeline of urban-intelligence-lab                         *)
(* (src/utils/data_quality.py): column standardisation, basic cleaning,    *)
(* schema validation, whole-column numeric anomaly detection, persistence  *)
(* and the composed run_data_quality_pipeline.                             *)
(*                                                                         *)
(* Text (column names, text cells, CSV fields) is a sequence of character  *)
(* codes, so that strip / lower / replace and lexicographic sorting are    *)
(* computed as the code computes them.  A table is a record                *)
(*   [columns : Seq(name), rows : Seq(Seq(cell))]                          *)
(* and a cell is Null, Num(i) or Txt(s).                                   *)
(*                                                                         *)
(* Input domain: the tables drawn by the Init predicates have pairwise     *)
(* distinct column names after standardisation, at least one column, and   *)
(* every column is either numeric (integers and nulls) or text (strings    *)
(* and nulls), which is what read_csv infers for such files.               *)
(***************************************************************************)
EXTENDS Integers, Sequences, FiniteSets, TLC

VARIABLES
    pc,         \* position in the running operation
    disk_raw,   \* the source file: [exists, encoding, table]
    disk_out,   \* the output directory: [exists, files]
    disk_out0,  \* the output directory as it was before the run (history)
    config,     \* the DataQualityConfig passed to the pipeline
    df_raw,     \* the table returned by load_csv
    df_clean,   \* the table returned by basic_cleaning
    issues,     \* the list returned by validate_schema
    anomalies,  \* the mapping returned by detect_numeric_anomalies
    result,     \* the DataQualityResult returned by the pipeline
    err,        \* the exception that left the pipeline, or "none"
    log,        \* the records handed to the logger, in order
    std_out,    \* results of successive standardize_column_names calls
    call,       \* the arguments of a direct call of one function
    series,     \* the table returned by prepare_daily_series
    scored      \* the table returned by detect_anomalies

vars == <<pc, disk_raw, disk_out, disk_out0, config, df_raw, df_clean,
          issues, anomalies, result, err, log, std_out, call, series, scored>>

\* the variables of the calls outside the quality pipeline
other_vars == <<call, series, scored>>

\* no direct call was made, no series was returned
NoCall == [fn |-> "none"]
NoSeries == [grouped |-> FALSE, rows |-> <<>>]

----------------------------------------------------------------------------
(* Characters and strings                                                  *)

\* Character codes of the characters the model uses.
Ord == [tab |-> 9, sp |-> 32, hy |-> 45, dot |-> 46, sl |-> 47, zero |-> 48,
        A |-> 65, B |-> 66, C |-> 67, D |-> 68, S |-> 83, V |-> 86, Z |-> 90,
        us |-> 95, a |-> 97, b |-> 98, c |-> 99, d |-> 100, s |-> 115,
        v |-> 118, x |-> 120, z |-> 122]

\* str.isspace for the characters of the model
IsSpace(c) == c \in {Ord.tab, 10, 11, 12, 13, Ord.sp}

RECURSIVE LStrip(_)
LStrip(s) ==
    IF s = <<>> THEN <<>>
    ELSE IF IsSpace(Head(s)) THEN LStrip(Tail(s)) ELSE s

RECURSIVE RStrip(_)
RStrip(s) ==
    IF s = <<>> THEN <<>>
    ELSE IF IsSpace(s[Len(s)]) THEN RStrip(SubSeq(s, 1, Len(s) - 1)) ELSE s

\* str.strip(): leading and trailing whitespace removed
Strip(s) == RStrip(LStrip(s))

\* str.lower() on ASCII
LowerChar(c) == IF c >= Ord.A /\ c <= Ord.Z THEN c + (Ord.a - Ord.A) ELSE c

Lower(s) == [i \in 1..Len(s) |-> LowerChar(s[i])]

\* str.replace(old, new) for one-character old and new
Replace(s, old, new) == [i \in 1..Len(s) |-> IF s[i] = old THEN new ELSE s[i]]

\* Python's order on str: lexicographic by code point
RECURSIVE StrLess(_, _)
StrLess(s, t) ==
    IF t = <<>> THEN FALSE
    ELSE IF s = <<>> THEN TRUE
    ELSE IF Head(s) # Head(t) THEN Head(s) < Head(t)
    ELSE StrLess(Tail(s), Tail(t))

\* sorted(S) for a set of strings
RECURSIVE Sorted(_)
Sorted(S) ==
    IF S = {} THEN <<>>
    ELSE LET m == CHOOSE u \in S : \A v \in S \ {u} : StrLess(u, v)
         IN  <<m>> \o Sorted(S \ {m})

Range(f) == {f[i] : i \in DOMAIN f}

----------------------------------------------------------------------------
(* Cells and tables                                                        *)

Null == [k |-> "null", n |-> 0, s |-> <<>>]
Num(i) == [k |-> "num", n |-> i, s |-> <<>>]
Txt(s) == [k |-> "txt", n |-> 0, s |-> s]

NRows(df) == Len(df.rows)
NCols(df) == Len(df.columns)

\* col in df.columns
HasCol(df, col) == col \in Range(df.columns)

\* position of a column (names are unique in the tables of the model)
ColIdx(df, col) == CHOOSE j \in 1..NCols(df) : df.columns[j] = col

\* df[col] as the sequence of its cells
Column(df, col) == [i \in 1..NRows(df) |-> df.rows[i][ColIdx(df, col)]]

NoTable == [columns |-> <<>>, rows |-> <<>>]

----------------------------------------------------------------------------
(* standardize_column_names                                                *)

\* faulty variant: the hyphen is turned into a space instead of an underscore
StdNameHyphenToSpace(name) ==
    Replace(Replace(Lower(Strip(name)), Ord.sp, Ord.us), Ord.hy, Ord.sp)

\* .str.strip().str.lower().str.replace(" ", "_").str.replace("-", "_")
StdName(name) ==
    Replace(Replace(Lower(Strip(name)), Ord.sp, Ord.us), Ord.hy, Ord.us)

standardize_column_names(df) ==
    [columns |-> [j \in 1..NCols(df) |-> StdName(df.columns[j])],
     rows |-> df.rows]

----------------------------------------------------------------------------
(* basic_cleaning                                                          *)

\* DataFrame.duplicated(subset): row i repeats an earlier row on the columns
\* at the positions in idx (all positions for subset = None); nulls are equal
Project(row, idx) == [p \in 1..Len(idx) |-> row[idx[p]]]

Duplicated(rows, idx, i) ==
    \E j \in 1..(i - 1) : Project(rows[j], idx) = Project(rows[i], idx)

\* faulty variant: keep = "last", a row is dropped when a later row repeats it
RECURSIVE KeepLast(_, _)
KeepLast(rows, i) ==
    IF i > Len(rows) THEN <<>>
    ELSE (IF \E j \in (i + 1)..Len(rows) : rows[j] = rows[i]
          THEN <<>> ELSE <<rows[i]>>) \o KeepLast(rows, i + 1)

DropDuplicatesKeepLast(rows) == KeepLast(rows, 1)

RECURSIVE KeepFirst(_, _)
KeepFirst(rows, i) ==
    IF i > Len(rows) THEN <<>>
    ELSE (IF \E j \in 1..(i - 1) : rows[j] = rows[i]
          THEN <<>> ELSE <<rows[i]>>) \o KeepFirst(rows, i + 1)

\* df.drop_duplicates(): keep = "first", all columns, order kept
DropDuplicates(rows) == KeepFirst(rows, 1)

\* .astype("string").str.strip() on one cell: nulls stay null
TrimCell(c) == IF c.k = "txt" THEN Txt(Strip(c.s)) ELSE c

TrimRow(row) == [j \in 1..Len(row) |-> TrimCell(row[j])]

\* faulty variant: the text columns are trimmed before the duplicates are
\* dropped
basic_cleaning_trim_first(df, cfg) ==
    LET std == standardize_column_names(df)
    IN  [columns |-> std.columns,
         rows |-> DropDuplicates([i \in 1..Len(std.rows) |->
                                     TrimRow(std.rows[i])])]

\* standardize names, drop fully duplicated rows, then trim text columns
basic_cleaning(df, cfg) ==
    LET std == standardize_column_names(df)
        dedup == DropDuplicates(std.rows)
    IN  [columns |-> std.columns,
         rows |-> [i \in 1..Len(dedup) |-> TrimRow(dedup[i])]]

\* what basic_cleaning hands to the logger
basic_cleaning_log(df, cfg) ==
    <<"info: Running basic cleaning", "info: Standardized column names">>
    \o (IF Len(DropDuplicates(df.rows)) < NRows(df)
        THEN <<"info: Dropped duplicate rows">> ELSE <<>>)

----------------------------------------------------------------------------
(* validate_schema                                                         *)

Issue(kind, cols, n, m, vals) ==
    [kind |-> kind, cols |-> cols, n |-> n, m |-> m, vals |-> vals]

\* a column holding text: comparing it with a number, or converting it to
\* float, raises
HasText(df, col) == \E i \in 1..NRows(df) : Column(df, col)[i].k = "txt"

NullCount(df, col) ==
    Cardinality({i \in 1..NRows(df) : Column(df, col)[i].k = "null"})

\* faulty variant: the names are listed in the order of the expectation and of
\* the table instead of sorted
ColumnIssuesUnsorted(df, cfg) ==
    LET missing == SelectSeq(cfg.expected_columns,
                             LAMBDA c : c \notin Range(df.columns))
        extra == SelectSeq(df.columns,
                           LAMBDA c : c \notin Range(cfg.expected_columns))
    IN  (IF missing # <<>>
         THEN <<Issue("missing_columns", missing, 0, 0, <<>>)>>
         ELSE <<>>)
        \o (IF extra # <<>>
            THEN <<Issue("unexpected_columns", extra, 0, 0, <<>>)>>
            ELSE <<>>)

\* lines 140-146
ColumnIssues(df, cfg) ==
    LET missing == Range(cfg.expected_columns) \ Range(df.columns)
        extra == Range(df.columns) \ Range(cfg.expected_columns)
    IN  (IF missing # {}
         THEN <<Issue("missing_columns", Sorted(missing), 0, 0, <<>>)>>
         ELSE <<>>)
        \o (IF extra # {}
            THEN <<Issue("unexpected_columns", Sorted(extra), 0, 0, <<>>)>>
            ELSE <<>>)

\* faulty variant: a non-null column absent from the table is skipped
RECURSIVE NonNullIssuesSkipAbsent(_, _)
NonNullIssuesSkipAbsent(df, cols) ==
    IF cols = <<>> THEN <<>>
    ELSE LET col == Head(cols)
             here == IF HasCol(df, col) /\ NullCount(df, col) > 0
                     THEN <<Issue("null_values", <<col>>,
                                  NullCount(df, col), 0, <<>>)>>
                     ELSE <<>>
         IN  here \o NonNullIssuesSkipAbsent(df, Tail(cols))

\* lines 148-155
RECURSIVE NonNullIssues(_, _)
NonNullIssues(df, cols) ==
    IF cols = <<>> THEN <<>>
    ELSE LET col == Head(cols)
             here == IF HasCol(df, col)
                     THEN IF NullCount(df, col) > 0
                          THEN <<Issue("null_values", <<col>>,
                                       NullCount(df, col), 0, <<>>)>>
                          ELSE <<>>
                     ELSE <<Issue("non_null_missing", <<col>>, 0, 0, <<>>)>>
         IN  here \o NonNullIssues(df, Tail(cols))

\* faulty variant: the row count is compared with <= instead of <
RowCountIssuesInclusive(df, cfg) ==
    IF NRows(df) <= cfg.min_rows
    THEN <<Issue("row_count", <<>>, NRows(df), cfg.min_rows, <<>>)>>
    ELSE <<>>

\* lines 157-161
RowCountIssues(df, cfg) ==
    IF NRows(df) < cfg.min_rows
    THEN <<Issue("row_count", <<>>, NRows(df), cfg.min_rows, <<>>)>>
    ELSE <<>>

\* Series.unique(): the distinct values in order of first appearance
\* faulty variant: every invalid row is listed, repeats included
NoUnique(s) == s

RECURSIVE Unique(_)
Unique(s) ==
    IF s = <<>> THEN <<>>
    ELSE LET init == SubSeq(s, 1, Len(s) - 1)
             last == s[Len(s)]
         IN  IF last \in Range(init) THEN Unique(init)
             ELSE Unique(init) \o <<last>>

\* lines 163-170; allowed is a sequence of [col, allowed] in dict order
RECURSIVE AllowedIssues(_, _)
AllowedIssues(df, allowed) ==
    IF allowed = <<>> THEN <<>>
    ELSE LET e == Head(allowed)
             invalid == IF HasCol(df, e.col)
                        THEN Unique(SelectSeq(Column(df, e.col),
                                              LAMBDA c : c \notin e.allowed))
                        ELSE <<>>
         IN  (IF Len(invalid) > 0
              THEN <<Issue("outside_allowed", <<e.col>>, 0, 0, invalid)>>
              ELSE <<>>)
             \o AllowedIssues(df, Tail(allowed))

\* faulty variant: a value equal to the minimum counts as below it
AnyBelowOrEqual(df, col, v) ==
    \E i \in 1..NRows(df) :
        Column(df, col)[i].k = "num" /\ Column(df, col)[i].n <= v

\* (df[col] < min_val).any() and (df[col] > max_val).any(): nulls compare false
AnyBelow(df, col, v) ==
    \E i \in 1..NRows(df) :
        Column(df, col)[i].k = "num" /\ Column(df, col)[i].n < v

AnyAbove(df, col, v) ==
    \E i \in 1..NRows(df) :
        Column(df, col)[i].k = "num" /\ Column(df, col)[i].n > v

\* lines 172-182; ranges is a sequence of [col, has_min, min, has_max, max]
RECURSIVE RangeIssues(_, _)
RangeIssues(df, ranges) ==
    IF ranges = <<>> THEN <<>>
    ELSE LET e == Head(ranges)
             present == HasCol(df, e.col)
         IN  (IF present /\ e.has_min /\ AnyBelow(df, e.col, e.min)
              THEN <<Issue("below_minimum", <<e.col>>, e.min, 0, <<>>)>>
              ELSE <<>>)
             \o (IF present /\ e.has_max /\ AnyAbove(df, e.col, e.max)
                 THEN <<Issue("above_maximum", <<e.col>>, e.max, 0, <<>>)>>
                 ELSE <<>>)
             \o RangeIssues(df, Tail(ranges))

\* the comparison of line 175 or 179 is made on a column that holds text:
\* TypeError
RangeRaises(df, ranges) ==
    \E p \in 1..Len(ranges) :
        /\ HasCol(df, ranges[p].col)
        /\ ranges[p].has_min \/ ranges[p].has_max
        /\ HasText(df, ranges[p].col)

\* faulty variant: keep = False, every member of a repeated key is counted
DuplicatedCountAllMembers(df, key) ==
    LET idx == [p \in 1..Len(key) |-> ColIdx(df, key[p])]
    IN  Cardinality({i \in 1..NRows(df) :
            \E j \in 1..NRows(df) :
                j # i /\ Project(df.rows[j], idx) = Project(df.rows[i], idx)})

\* df.duplicated(subset=key).sum()
DuplicatedCount(df, key) ==
    LET idx == [p \in 1..Len(key) |-> ColIdx(df, key[p])]
    IN  Cardinality({i \in 1..NRows(df) : Duplicated(df.rows, idx, i)})

\* lines 184-191
RECURSIVE UniqueIssues(_, _)
UniqueIssues(df, keys) ==
    IF keys = <<>> THEN <<>>
    ELSE LET key == Head(keys)
             all_present == \A p \in 1..Len(key) : HasCol(df, key[p])
         IN  (IF all_present /\ DuplicatedCount(df, key) > 0
              THEN <<Issue("duplicated_key", key,
                           DuplicatedCount(df, key), 0, <<>>)>>
              ELSE <<>>)
             \o UniqueIssues(df, Tail(keys))

\* faulty variant: the uniqueness check runs before the range check
validate_schema_keys_before_ranges(df, cfg) ==
    ColumnIssues(df, cfg)
    \o NonNullIssues(df, cfg.non_null_columns)
    \o RowCountIssues(df, cfg)
    \o AllowedIssues(df, cfg.allowed_values)
    \o UniqueIssues(df, cfg.unique_keys)
    \o RangeIssues(df, cfg.value_ranges)

\* the list validate_schema returns when it returns
validate_schema(df, cfg) ==
    ColumnIssues(df, cfg)
    \o NonNullIssues(df, cfg.non_null_columns)
    \o RowCountIssues(df, cfg)
    \o AllowedIssues(df, cfg.allowed_values)
    \o RangeIssues(df, cfg.value_ranges)
    \o UniqueIssues(df, cfg.unique_keys)

\* validate_schema raises instead of returning
validate_schema_raises(df, cfg) == RangeRaises(df, cfg.value_ranges)

----------------------------------------------------------------------------
(* detect_numeric_anomalies                                                *)

\* z_threshold as a ratio num / den; the default of line 197 is 4.0
DefaultZThreshold == [num |-> 4, den |-> 1]

RECURSIVE SumSeq(_)
SumSeq(s) == IF s = <<>> THEN 0 ELSE Head(s) + SumSeq(Tail(s))

\* the non-null values of a numeric column (mean and std skip nulls)
Values(df, col) ==
    LET present == SelectSeq(Column(df, col), LAMBDA c : c.k = "num")
    IN  [i \in 1..Len(present) |-> present[i].n]

\* With n values of sum S, n * (x - mean) = n * x - S, and Series.std() is
\* the sample deviation (ddof = 1): std^2 = SumSq / (n^2 * (n - 1)) where
\* SumSq is the sum of the (n * x_i - S)^2.
Dev(vals, v) == Len(vals) * v - SumSeq(vals)

SumSqDev(vals) == SumSeq([i \in 1..Len(vals) |-> Dev(vals, vals[i]) * Dev(vals, vals[i])])

\* faulty variant: a zero or undefined deviation does not skip the column
StdNeverSkipped(vals) == FALSE

\* line 216: std == 0 or np.isnan(std); std is nan with fewer than 2 values
StdZeroOrNan(vals) == Len(vals) < 2 \/ SumSqDev(vals) = 0

\* line 220: |x - mean| / std >= z_threshold, in integers
ZAtLeast(vals, v, z) ==
    IF z.num <= 0 THEN TRUE
    ELSE Dev(vals, v) * Dev(vals, v) * (Len(vals) - 1) * z.den * z.den
             >= z.num * z.num * SumSqDev(vals)

\* rows (by position) of df flagged for col; nulls are never flagged
Flagged(df, col, z) ==
    LET vals == Values(df, col)
    IN  SelectSeq([i \in 1..NRows(df) |-> i],
                  LAMBDA i : /\ Column(df, col)[i].k = "num"
                             /\ ZAtLeast(vals, Column(df, col)[i].n, z))

\* lines 207-224: the mapping as a sequence of [col, rows] in insertion
\* order; acc is the mapping built so far (a repeated column keeps its place)
RECURSIVE DetectLoop(_, _, _, _)
DetectLoop(df, numeric_columns, z, acc) ==
    IF numeric_columns = <<>> THEN acc
    ELSE LET col == Head(numeric_columns)
             skip == \/ ~HasCol(df, col)
                     \/ StdZeroOrNan(Values(df, col))
                     \/ Flagged(df, col, z) = <<>>
                     \/ \E p \in 1..Len(acc) : acc[p].col = col
             entry == [col |-> col,
                       rows |-> [p \in 1..Len(Flagged(df, col, z)) |->
                                    df.rows[Flagged(df, col, z)[p]]]]
         IN  DetectLoop(df, Tail(numeric_columns), z,
                        IF skip THEN acc ELSE Append(acc, entry))

detect_numeric_anomalies(df, numeric_columns, z) ==
    DetectLoop(df, numeric_columns, z, <<>>)

\* line 212: astype(float) on a requested, present column that holds text
\* raises ValueError
detect_numeric_anomalies_raises(df, numeric_columns) ==
    \E p \in 1..Len(numeric_columns) :
        HasCol(df, numeric_columns[p]) /\ HasText(df, numeric_columns[p])

\* list(anomalies.keys())
Keys(anoms) == [p \in 1..Len(anoms) |-> anoms[p].col]

----------------------------------------------------------------------------
(* DataQualityResult                                                       *)

\* faulty variant: a report with anomalies is not acceptable either
is_acceptable_no_anomalies(r) ==
    Len(r.issues) = 0 /\ Len(r.anomaly_columns) = 0

\* line 57
is_acceptable(r) == Len(r.issues) = 0

\* lines 59-68
to_dict(r) ==
    [dataset_name |-> r.dataset_name,
     n_rows_before |-> r.n_rows_before,
     n_rows_after |-> r.n_rows_after,
     n_columns |-> r.n_columns,
     issues |-> r.issues,
     anomaly_columns |-> r.anomaly_columns,
     is_acceptable |-> is_acceptable(r)]

NoResult ==
    [dataset_name |-> "", n_rows_before |-> 0, n_rows_after |-> 0,
     n_columns |-> 0, issues |-> <<>>, anomaly_columns |-> <<>>]

----------------------------------------------------------------------------
(* save_dataset                                                            *)

RECURSIVE Digits(_)
Digits(n) ==
    IF n < 10 THEN <<Ord.zero + n>>
    ELSE Digits(n \div 10) \o <<Ord.zero + (n % 10)>>

\* str() of a number of an int64 column, or of a float64 column
FormatNum(n, as_float) ==
    (IF n < 0 THEN <<Ord.hy>> \o Digits(-n) ELSE Digits(n))
    \o (IF as_float THEN <<Ord.dot, Ord.zero>> ELSE <<>>)

\* a numeric column that holds a null is float64
IsFloatCol(df, j) == \E i \in 1..NRows(df) : df.rows[i][j].k = "null"

\* one field of to_csv: a null is written as the empty field
FormatCell(df, i, j) ==
    LET cell == df.rows[i][j]
    IN  IF cell.k = "null" THEN <<>>
        ELSE IF cell.k = "txt" THEN cell.s
        ELSE FormatNum(cell.n, IsFloatCol(df, j))

NoFile == [present |-> FALSE, header |-> <<>>, records |-> <<>>]

\* df.to_csv(path, index=False): the header line, then one record per row
to_csv(df) ==
    [present |-> TRUE,
     header |-> df.columns,
     records |-> [i \in 1..NRows(df) |->
                     [j \in 1..NCols(df) |-> FormatCell(df, i, j)]]]

NoParquet == [present |-> FALSE, table |-> NoTable]

to_parquet(df) == [present |-> TRUE, table |-> df]

\* lines 231-242: mkdir, <name>_clean.csv, then <name>_clean.parquet unless
\* the columnar write fails (parquet_ok = FALSE), which is only logged
save_dataset(df, out, name, parquet_ok) ==
    [exists |-> TRUE,
     csv |-> [out.csv EXCEPT ![name] = to_csv(df)],
     parquet |-> IF parquet_ok
                 THEN [out.parquet EXCEPT ![name] = to_parquet(df)]
                 ELSE out.parquet]

save_dataset_log(parquet_ok) ==
    <<"info: Saving cleaned dataset">>
    \o (IF parquet_ok THEN <<>>
        ELSE <<"warning: Could not save Parquet file">>)

----------------------------------------------------------------------------
(* run_data_quality_pipeline, one action per step of its body              *)

\* faulty variant: a missing file is read as an empty table
LoadCsvNoCheck ==
    /\ pc = "start"
    /\ pc' = "loaded"
    /\ df_raw' = disk_raw.table
    /\ log' = log \o <<"info: Loading CSV file", "info: Loaded with utf-8">>
    /\ err' = err
    /\ UNCHANGED <<disk_raw, disk_out, disk_out0, config, df_clean, issues,
                   anomalies, result, std_out, other_vars>>

\* line 260, load_csv (lines 77-90): FileNotFoundError for a missing file;
\* a file that does not decode as utf-8 is read again as latin1
LoadCsv ==
    /\ pc = "start"
    /\ IF ~disk_raw.exists
       THEN /\ pc' = "raised"
            /\ err' = "FileNotFoundError"
            /\ df_raw' = df_raw
            /\ log' = log \o <<"info: Loading CSV file">>
       ELSE /\ pc' = "loaded"
            /\ err' = err
            /\ df_raw' = disk_raw.table
            /\ log' = log \o <<"info: Loading CSV file">>
                      \o (IF disk_raw.encoding = "utf-8"
                          THEN <<"info: Loaded with utf-8">>
                          ELSE <<"warning: utf-8 decoding failed",
                                 "info: Loaded with latin1">>)
    /\ UNCHANGED <<disk_raw, disk_out, disk_out0, config, df_clean, issues,
                   anomalies, result, std_out, other_vars>>

\* faulty variant: the names are standardized on the caller's table itself
BasicCleaningInPlace ==
    /\ pc = "loaded"
    /\ df_clean' = basic_cleaning(df_raw, config)
    /\ df_raw' = standardize_column_names(df_raw)
    /\ log' = log \o basic_cleaning_log(df_raw, config)
    /\ pc' = "cleaned"
    /\ UNCHANGED <<disk_raw, disk_out, disk_out0, config, issues, anomalies,
                   result, err, std_out, other_vars>>

\* line 263
BasicCleaning ==
    /\ pc = "loaded"
    /\ df_clean' = basic_cleaning(df_raw, config)
    /\ log' = log \o basic_cleaning_log(df_raw, config)
    /\ pc' = "cleaned"
    /\ UNCHANGED <<disk_raw, disk_out, disk_out0, config, df_raw, issues,
                   anomalies, result, err, std_out, other_vars>>

\* line 264
ValidateSchema ==
    /\ pc = "cleaned"
    /\ IF validate_schema_raises(df_clean, config)
       THEN /\ pc' = "raised"
            /\ err' = "TypeError"
            /\ issues' = issues
       ELSE /\ pc' = "validated"
            /\ err' = err
            /\ issues' = validate_schema(df_clean, config)
    /\ UNCHANGED <<disk_raw, disk_out, disk_out0, config, df_raw, df_clean,
                   anomalies, result, log, std_out, other_vars>>

\* lines 266-274
DetectNumericAnomalies ==
    /\ pc = "validated"
    /\ IF detect_numeric_anomalies_raises(df_clean, config.numeric_columns)
       THEN /\ pc' = "raised"
            /\ err' = "ValueError"
            /\ anomalies' = anomalies
            /\ log' = log
       ELSE /\ pc' = "detected"
            /\ err' = err
            /\ anomalies' = detect_numeric_anomalies(
                                df_clean, config.numeric_columns,
                                DefaultZThreshold)
            /\ log' = log \o (IF anomalies' # <<>>
                              THEN <<"info: Detected anomalies">> ELSE <<>>)
    /\ UNCHANGED <<disk_raw, disk_out, disk_out0, config, df_raw, df_clean,
                   issues, result, std_out, other_vars>>

\* faulty variant: a table with issues or anomalies is not written
SaveDatasetIfClean ==
    /\ pc = "detected"
    /\ \E parquet_ok \in BOOLEAN :
           /\ disk_out' = IF issues = <<>> /\ anomalies = <<>>
                          THEN save_dataset(df_clean, disk_out, config.name,
                                            parquet_ok)
                          ELSE disk_out
           /\ log' = log \o save_dataset_log(parquet_ok)
    /\ pc' = "saved"
    /\ UNCHANGED <<disk_raw, disk_out0, config, df_raw, df_clean, issues,
                   anomalies, result, err, std_out, other_vars>>

\* faulty variant: the failure of the columnar write is not caught
SaveDatasetParquetFatal ==
    /\ pc = "detected"
    /\ \E parquet_ok \in BOOLEAN :
           /\ disk_out' = save_dataset(df_clean, disk_out, config.name,
                                       parquet_ok)
           /\ log' = log \o <<"info: Saving cleaned dataset">>
           /\ pc' = IF parquet_ok THEN "saved" ELSE "raised"
           /\ err' = IF parquet_ok THEN err ELSE "ImportError"
    /\ UNCHANGED <<disk_raw, disk_out0, config, df_raw, df_clean, issues,
                   anomalies, result, std_out, other_vars>>

\* line 276; whether the columnar write succeeds is the environment's choice
SaveDataset ==
    /\ pc = "detected"
    /\ \E parquet_ok \in BOOLEAN :
           /\ disk_out' = save_dataset(df_clean, disk_out, config.name,
                                       parquet_ok)
           /\ log' = log \o save_dataset_log(parquet_ok)
    /\ pc' = "saved"
    /\ UNCHANGED <<disk_raw, disk_out0, config, df_raw, df_clean, issues,
                   anomalies, result, err, std_out, other_vars>>

\* faulty variant: n_rows_after is counted on the raw table
DataQualityResultRawRows ==
    [dataset_name |-> config.name,
     n_rows_before |-> NRows(df_raw),
     n_rows_after |-> NRows(df_raw),
     n_columns |-> NCols(df_clean),
     issues |-> issues,
     anomaly_columns |-> Keys(anomalies)]

\* lines 278-285
DataQualityResult ==
    [dataset_name |-> config.name,
     n_rows_before |-> NRows(df_raw),
     n_rows_after |-> NRows(df_clean),
     n_columns |-> NCols(df_clean),
     issues |-> issues,
     anomaly_columns |-> Keys(anomalies)]

\* lines 278-296
Return ==
    /\ pc = "saved"
    /\ result' = DataQualityResult
    /\ log' = log \o (IF is_acceptable(result')
                      THEN <<"info: Data quality checks passed">>
                      ELSE <<"warning: Data quality checks found issues">>)
    /\ pc' = "returned"
    /\ UNCHANGED <<disk_raw, disk_out, disk_out0, config, df_raw, df_clean,
                   issues, anomalies, err, std_out, other_vars>>

Next ==
    \/ LoadCsv
    \/ BasicCleaning
    \/ ValidateSchema
    \/ DetectNumericAnomalies
    \/ SaveDataset
    \/ Return

----------------------------------------------------------------------------
(* Input domains                                                           *)

MaxRows == 2        \* rows of an enumerated source table
MaxMinRows == 2     \* largest min_rows of an enumerated expectation
LongRows == 18      \* rows of the long source tables
MaxNameLen == 3     \* characters of an enumerated raw column name

\* standardized column names used by the expectations
col_a == <<Ord.a>>
col_b == <<Ord.b>>
col_c == <<Ord.c>>
col_z == <<Ord.z>>

\* raw column names as they stand in the source file
raw_a == <<Ord.sp, Ord.A>>
raw_c == <<Ord.C>>

TextCells == {Null, Txt(<<Ord.a>>), Txt(<<Ord.sp, Ord.a>>)}
NumCells == {Null, Num(0), Num(5)}

\* the rows a header of the given column kinds can hold
RowsOf(kinds) ==
    {r \in [1..Len(kinds) -> TextCells \cup NumCells] :
        \A j \in 1..Len(kinds) :
            r[j] \in (IF kinds[j] = "txt" THEN TextCells ELSE NumCells)}

TablesOf(header, kinds, max_rows) ==
    {[columns |-> header, rows |-> rows] :
        rows \in UNION {[1..k -> RowsOf(kinds)] : k \in 0..max_rows}}

\* k rows (id, 0) and a last row (id, 1): distinct rows, one outlying value
LongTable(k) ==
    [columns |-> <<raw_a, raw_c>>,
     rows |-> [i \in 1..k |-> <<Num(i), Num(IF i = k THEN 1 ELSE 0)>>]]

SmallTables ==
    TablesOf(<<raw_a, raw_c>>, <<"txt", "num">>, MaxRows)
    \cup TablesOf(<<raw_c>>, <<"num">>, MaxRows)

PipelineTables ==
    SmallTables \cup {LongTable(LongRows - 1), LongTable(LongRows)}

DatasetNames == {"subte", "molinetes"}

RangeOf(col, has_min, min, has_max, max) ==
    [col |-> col, has_min |-> has_min, min |-> min,
     has_max |-> has_max, max |-> max]

\* DataQualityConfig (lines 23-40)
DataQualityConfig(name, exp, non_null, numeric, allowed, ranges, keys, minr) ==
    [name |-> name, expected_columns |-> exp,
     non_null_columns |-> non_null, date_columns |-> <<>>,
     numeric_columns |-> numeric, allowed_values |-> allowed,
     value_ranges |-> ranges, unique_keys |-> keys, min_rows |-> minr]

PipelineConfigs ==
    {DataQualityConfig("subte", expected, <<col_c>>, numeric, <<>>, ranges,
                       <<>>, min_rows) :
        expected \in {<<col_a, col_c>>, <<col_a, col_b>>},
        numeric \in {<<>>, <<col_c>>, <<col_a>>},
        ranges \in {<<>>, <<RangeOf(col_c, TRUE, 1, FALSE, 0)>>,
                    <<RangeOf(col_a, FALSE, 0, TRUE, 9)>>},
        min_rows \in 1..MaxMinRows}

NoFiles ==
    [exists |-> FALSE,
     csv |-> [d \in DatasetNames |-> NoFile],
     parquet |-> [d \in DatasetNames |-> NoParquet]]

\* an output directory left by an earlier run
StaleTable == [columns |-> <<col_z>>, rows |-> <<<<Num(7)>>>>]

StaleFiles ==
    [exists |-> TRUE,
     csv |-> [d \in DatasetNames |-> to_csv(StaleTable)],
     parquet |-> [d \in DatasetNames |-> to_parquet(StaleTable)]]

InitRun(file, out, cfg) ==
    /\ pc = "start"
    /\ disk_raw = file
    /\ disk_out = out
    /\ disk_out0 = out
    /\ config = cfg
    /\ df_raw = NoTable
    /\ df_clean = NoTable
    /\ issues = <<>>
    /\ anomalies = <<>>
    /\ result = NoResult
    /\ err = "none"
    /\ log = <<>>
    /\ std_out = <<>>
    /\ call = NoCall
    /\ series = NoSeries
    /\ scored = NoSeries

SourceFile(exists, encoding, table) ==
    [exists |-> exists, encoding |-> encoding, table |-> table]

MissingFile == SourceFile(FALSE, "utf-8", NoTable)

\* the latin1 files of the model are the short ones
SourceFiles(tables) ==
    {MissingFile}
    \cup {SourceFile(TRUE, "utf-8", t) : t \in tables}
    \cup {SourceFile(TRUE, "latin1", t) : t \in {u \in tables : NRows(u) <= 1}}

\* run_data_quality_pipeline on any source file, expectation and output
\* directory of the domains above
Init ==
    \E file \in SourceFiles(PipelineTables), cfg \in PipelineConfigs,
       out \in {NoFiles, StaleFiles} :
        InitRun(file, out, cfg)

Spec == Init /\ [][Next]_vars

----------------------------------------------------------------------------
(* The pipeline on tables with repeated rows                               *)

MaxCleanRows == 3   \* rows of a source table of SpecClean

CleanRows ==
    {<<t, n>> : t \in {Txt(<<Ord.a>>), Txt(<<Ord.sp, Ord.a>>)},
                n \in {Null, Num(0)}}

CleanTables ==
    {[columns |-> <<raw_a, raw_c>>, rows |-> rows] :
        rows \in UNION {[1..k -> CleanRows] : k \in 0..MaxCleanRows}}

InitClean ==
    \E file \in SourceFiles(CleanTables),
       cfg \in {c \in PipelineConfigs : c.numeric_columns = <<col_c>>
                                        /\ c.min_rows = 1} :
        InitRun(file, NoFiles, cfg)

SpecClean == InitClean /\ [][Next]_vars

----------------------------------------------------------------------------
(* The pipeline on expectations that vary the schema checks                *)

raw_c_first == <<raw_c, raw_a>>

ValidateTables ==
    SmallTables \cup TablesOf(raw_c_first, <<"num", "txt">>, MaxRows)

ValidateConfigs ==
    {DataQualityConfig("subte", expected, non_null, <<col_c>>,
                       <<[col |-> col_a, allowed |-> {Txt(<<Ord.a>>)}]>>,
                       <<RangeOf(col_c, TRUE, 0, TRUE, 5)>>,
                       <<<<col_a>>>>, min_rows) :
        expected \in {<<col_a, col_b>>, <<col_a, col_c>>, <<col_c, col_a>>,
                      <<>>, <<col_z, col_b, col_a>>},
        non_null \in {<<>>, <<col_c>>, <<col_a, col_z>>,
                      <<col_z, col_c, col_a>>},
        min_rows \in 1..MaxMinRows}

InitValidate ==
    \E file \in SourceFiles(ValidateTables), cfg \in ValidateConfigs :
        InitRun(file, NoFiles, cfg)

SpecValidate == InitValidate /\ [][Next]_vars

----------------------------------------------------------------------------
(* The pipeline on expectations that vary the value constraints            *)

col_b_text == Txt(<<Ord.b>>)

ConstraintRows ==
    {<<t, n>> : t \in TextCells \cup {col_b_text}, n \in NumCells}

ConstraintTables ==
    {[columns |-> <<raw_a, raw_c>>, rows |-> rows] :
        rows \in UNION {[1..k -> ConstraintRows] : k \in 0..MaxRows}}

AllowedOf(col, allowed) == [col |-> col, allowed |-> allowed]

\* value_ranges: bounds equal to the values 0 and 5, bounds between them,
\* one-sided bounds, a column the table lacks, a column that holds text
RangeChoices ==
    {<<>>,
     <<RangeOf(col_c, TRUE, 0, TRUE, 5)>>,
     <<RangeOf(col_c, TRUE, 1, FALSE, 0)>>,
     <<RangeOf(col_c, FALSE, 0, TRUE, 3)>>,
     <<RangeOf(col_c, TRUE, 1, TRUE, 3)>>,
     <<RangeOf(col_z, TRUE, 1, TRUE, 3), RangeOf(col_c, TRUE, 5, TRUE, 0)>>,
     <<RangeOf(col_a, TRUE, 1, FALSE, 0)>>}

AllowedChoices ==
    {<<>>,
     <<AllowedOf(col_a, {Txt(<<Ord.a>>)})>>,
     <<AllowedOf(col_a, {Txt(<<Ord.a>>), Null})>>,
     <<AllowedOf(col_c, {Num(0)})>>,
     <<AllowedOf(col_z, {Num(0)}), AllowedOf(col_a, {col_b_text})>>,
     <<AllowedOf(col_c, {Num(0), Num(5), Null}), AllowedOf(col_a, {})>>}

KeyChoices ==
    {<<>>,
     <<<<col_a>>>>,
     <<<<col_a, col_c>>>>,
     <<<<col_a, col_z>>>>,
     <<<<col_c>>, <<col_z>>, <<col_c, col_a>>>>}

ConstraintConfig(allowed, ranges, keys) ==
    DataQualityConfig("subte", <<col_a, col_c>>, <<>>, <<col_c>>, allowed,
                      ranges, keys, 1)

\* expectations under which every check of validate_schema can find
\* something in one table
AllChecksConfigs ==
    {DataQualityConfig("subte", expected, non_null, <<col_c>>,
                       <<AllowedOf(col_a, {Txt(<<Ord.a>>)})>>, ranges,
                       <<<<col_a>>>>, min_rows) :
        expected \in {<<col_a, col_z>>, <<col_z, col_c>>},
        non_null \in {<<col_a, col_z>>, <<col_z, col_a>>},
        ranges \in {<<RangeOf(col_c, TRUE, 1, TRUE, 3)>>,
                    <<RangeOf(col_z, TRUE, 1, TRUE, 3),
                      RangeOf(col_c, TRUE, 1, TRUE, 3)>>},
        min_rows \in {1, MaxRows + 1}}

\* one family of constraints varies at a time, or all checks hold at once
ConstraintConfigs ==
    {ConstraintConfig(<<>>, ranges, <<>>) : ranges \in RangeChoices}
    \cup {ConstraintConfig(allowed, <<>>, <<>>) : allowed \in AllowedChoices}
    \cup {ConstraintConfig(<<AllowedOf(col_a, {Txt(<<Ord.a>>)})>>,
                           <<RangeOf(col_c, TRUE, 1, TRUE, 3)>>, keys) :
              keys \in KeyChoices}
    \cup AllChecksConfigs

InitConstraints ==
    \E file \in SourceFiles(ConstraintTables), cfg \in ConstraintConfigs :
        InitRun(file, NoFiles, cfg)

SpecConstraints == InitConstraints /\ [][Next]_vars

----------------------------------------------------------------------------
(* detect_numeric_anomalies called with a threshold of the caller's        *)

MaxDetectRows == 5  \* rows of a table handed to detect_numeric_anomalies

DetectCells == {Null, Num(1), Num(100)}

DetectTables ==
    {[columns |-> <<col_c>>,
      rows |-> [i \in 1..MaxDetectRows |-> <<cells[i]>>]] :
        cells \in [1..MaxDetectRows -> DetectCells]}
    \cup {[columns |-> <<col_c>>, rows |-> [i \in 1..k |-> <<Num(1)>>]] :
             k \in 0..(MaxDetectRows - 1)}
    \cup {[columns |-> <<col_c>>, rows |-> <<<<Txt(<<Ord.a>>)>>, <<Num(1)>>>>]}

ZThresholds ==
    {[num |-> 3, den |-> 2], [num |-> 19, den |-> 10], DefaultZThreshold}

DetectCall(df, numeric_columns, z_threshold) ==
    [fn |-> "detect_numeric_anomalies", df |-> df,
     numeric_columns |-> numeric_columns, z_threshold |-> z_threshold]

\* no pipeline runs: one function is about to be called with arguments c
InitCall(c) ==
    /\ pc = "call"
    /\ call = c
    /\ disk_raw = MissingFile
    /\ disk_out = NoFiles
    /\ disk_out0 = NoFiles
    /\ config = CHOOSE cfg \in PipelineConfigs : TRUE
    /\ df_raw = NoTable
    /\ df_clean = NoTable
    /\ issues = <<>>
    /\ anomalies = <<>>
    /\ result = NoResult
    /\ err = "none"
    /\ log = <<>>
    /\ std_out = <<>>
    /\ series = NoSeries
    /\ scored = NoSeries

InitDetect ==
    \E df \in DetectTables, z \in ZThresholds,
       cols \in {<<col_c>>, <<col_z, col_c>>} :
        InitCall(DetectCall(df, cols, z))

\* detect_numeric_anomalies(df, numeric_columns, z_threshold) called directly
DetectNumericAnomaliesCall ==
    /\ pc = "call"
    /\ call.fn = "detect_numeric_anomalies"
    /\ IF detect_numeric_anomalies_raises(call.df, call.numeric_columns)
       THEN /\ pc' = "raised"
            /\ err' = "ValueError"
            /\ anomalies' = anomalies
       ELSE /\ pc' = "called"
            /\ err' = err
            /\ anomalies' = detect_numeric_anomalies(
                                call.df, call.numeric_columns,
                                call.z_threshold)
    /\ UNCHANGED <<disk_raw, disk_out, disk_out0, config, df_raw, df_clean,
                   issues, result, log, std_out, other_vars>>

NextDetect == DetectNumericAnomaliesCall

SpecDetect == InitDetect /\ [][NextDetect]_vars

----------------------------------------------------------------------------
(* src/ml/anomaly_detector.py: prepare_daily_series                        *)

\* AnomalyConfig (lines 9-17). station_col None is the empty name, which
\* line 43 treats like None; z_threshold is a ratio [num, den].
AnomalyConfig(date_col, value_col, station_col, freq, window, z, min_periods) ==
    [date_col |-> date_col, value_col |-> value_col,
     station_col |-> station_col, freq |-> freq, window |-> window,
     z_threshold |-> z, min_periods |-> min_periods]

\* faulty variant: the column names are trimmed but keep their case
NormNameKeepCase(name) == Strip(name)

\* line 27: str.strip().str.lower() on one column name
NormName(name) == Lower(Strip(name))

\* dfx after line 27
NormColumns(df) ==
    [columns |-> [j \in 1..NCols(df) |-> NormName(df.columns[j])],
     rows |-> df.rows]

\* line 29
MissingRequired(df, cfg) ==
    \/ ~HasCol(NormColumns(df), cfg.date_col)
    \/ ~HasCol(NormColumns(df), cfg.value_col)

IsDigit(c) == c >= Ord.zero /\ c <= Ord.zero + 9

IsDigits(s) == s # <<>> /\ \A i \in 1..Len(s) : IsDigit(s[i])

RECURSIVE DigitsValue(_)
DigitsValue(s) ==
    IF s = <<>> THEN 0
    ELSE 10 * DigitsValue(SubSeq(s, 1, Len(s) - 1)) + (s[Len(s)] - Ord.zero)

NaT == [ok |-> FALSE, ts |-> 0]

\* line 33: pd.to_datetime(dayfirst=True, errors="coerce") on one cell. The
\* date cells of the model are null or text; a text "D/M H" (day first,
\* then month, then hour of the day) is the hour D/M H:00 of one year,
\* counted in hours with months of 31 days; any other text is NaT.
to_datetime(cell) ==
    IF /\ cell.k = "txt"
       /\ Len(cell.s) = 5
       /\ IsDigit(cell.s[1]) /\ cell.s[1] # Ord.zero
       /\ cell.s[2] = Ord.sl
       /\ IsDigit(cell.s[3]) /\ cell.s[3] # Ord.zero
       /\ cell.s[4] = Ord.sp
       /\ IsDigit(cell.s[5])
    THEN [ok |-> TRUE,
          ts |-> ((cell.s[3] - Ord.zero - 1) * 31
                      + (cell.s[1] - Ord.zero - 1)) * 24
                 + (cell.s[5] - Ord.zero)]
    ELSE NaT

\* line 37: pd.to_numeric(errors="coerce").fillna(0) on one cell: a number
\* stays, a text of digits is its value, anything else becomes 0
to_numeric_fillna(cell) ==
    IF cell.k = "num" THEN cell.n
    ELSE IF cell.k = "txt" /\ IsDigits(cell.s) THEN DigitsValue(cell.s)
    ELSE 0

\* line 40: dt.floor(freq) for freq "D" and "h", on a count of hours
Floor(ts, freq) == IF freq = "D" THEN ts - (ts % 24) ELSE ts

\* line 43
Grouped(df, cfg) ==
    cfg.station_col # <<>> /\ HasCol(NormColumns(df), cfg.station_col)

\* lines 33-44: the rows that survive dropna(subset=[date_col]), each with
\* its bucket, its group key (null when not grouped) and its coerced value
KeptRows(df, cfg) ==
    LET dfx == NormColumns(df)
        parsed == [i \in 1..NRows(df) |->
                      [date |-> to_datetime(Column(dfx, cfg.date_col)[i]),
                       station |-> IF Grouped(df, cfg)
                                   THEN Column(dfx, cfg.station_col)[i]
                                   ELSE Null,
                       value |-> to_numeric_fillna(
                                     Column(dfx, cfg.value_col)[i])]]
        kept == SelectSeq(parsed, LAMBDA r : r.date.ok)
    IN  [i \in 1..Len(kept) |->
            [date |-> Floor(kept[i].date.ts, cfg.freq),
             station |-> kept[i].station, value |-> kept[i].value]]

GroupKey(r) == [date |-> r.date, station |-> r.station]

\* line 47: groupby(group_cols) with the default dropna=True leaves out the
\* rows whose group key is null
GroupKeys(rows, grouped) ==
    {GroupKey(r) : r \in {x \in Range(rows) : ~grouped \/ x.station.k # "null"}}

\* the order of two group keys: by bucket, then by station
CellLess(a, b) ==
    IF a.k = "num" /\ b.k = "num" THEN a.n < b.n ELSE StrLess(a.s, b.s)

KeyLess(a, b) ==
    \/ a.date < b.date
    \/ a.date = b.date /\ CellLess(a.station, b.station)

\* groupby sorts the group keys ascending (sort=True)
RECURSIVE SortedKeys(_)
SortedKeys(S) ==
    IF S = {} THEN <<>>
    ELSE LET m == CHOOSE u \in S : \A v \in S \ {u} : KeyLess(u, v)
         IN  <<m>> \o SortedKeys(S \ {m})

\* line 47: [value_col].sum() of one group
GroupSum(rows, key) ==
    LET members == SelectSeq(rows, LAMBDA r : GroupKey(r) = key)
    IN  SumSeq([i \in 1..Len(members) |-> members[i].value])

\* lines 26-52 when line 30 does not raise. The returned table has the
\* columns date, station_col (when grouped) and value_col; it is kept as
\* [grouped, rows], each row a record [date, station, value], station
\* being null in every row when the table is not grouped.
prepare_daily_series(df, cfg) ==
    LET rows == KeptRows(df, cfg)
        keys == SortedKeys(GroupKeys(rows, Grouped(df, cfg)))
    IN  [grouped |-> Grouped(df, cfg),
         rows |-> [p \in 1..Len(keys) |->
                      [date |-> keys[p].date, station |-> keys[p].station,
                       value |-> GroupSum(rows, keys[p])]]]

PrepareCall(df, cfg) == [fn |-> "prepare_daily_series", df |-> df, cfg |-> cfg]

\* prepare_daily_series(df, cfg) called
PrepareDailySeries ==
    /\ pc = "call"
    /\ call.fn = "prepare_daily_series"
    /\ IF MissingRequired(call.df, call.cfg)
       THEN /\ pc' = "raised"
            /\ err' = "ValueError"
            /\ series' = series
       ELSE /\ pc' = "prepared"
            /\ err' = err
            /\ series' = prepare_daily_series(call.df, call.cfg)
    /\ UNCHANGED <<disk_raw, disk_out, disk_out0, config, df_raw, df_clean,
                   issues, anomalies, result, log, std_out, call, scored>>

----------------------------------------------------------------------------
(* src/ml/anomaly_detector.py: detect_anomalies                            *)

\* lines 64 and 69: station_col is set and is a column of the series
ByStation(series_df, cfg) == cfg.station_col # <<>> /\ series_df.grouped

\* the order of sort_values: by station (nulls last) then date, or by date
RowLess(a, b, by_station) ==
    IF by_station /\ a.station # b.station
    THEN a.station.k # "null"
         /\ (b.station.k = "null" \/ CellLess(a.station, b.station))
    ELSE a.date < b.date

\* r put behind the rows of a sorted sequence that are not after it
RECURSIVE InsertRow(_, _, _)
InsertRow(sorted, r, by_station) ==
    IF sorted = <<>> THEN <<r>>
    ELSE IF RowLess(r, sorted[Len(sorted)], by_station)
         THEN Append(InsertRow(SubSeq(sorted, 1, Len(sorted) - 1), r,
                               by_station),
                     sorted[Len(sorted)])
         ELSE Append(sorted, r)

\* line 66: sort_values(sort_cols), a stable sort
RECURSIVE SortRows(_, _)
SortRows(rows, by_station) ==
    IF rows = <<>> THEN <<>>
    ELSE InsertRow(SortRows(SubSeq(rows, 1, Len(rows) - 1), by_station),
                   rows[Len(rows)], by_station)

\* faulty variant: the window runs over the rows of every group
WindowAcrossGroups(rows, i, by_station, window) ==
    {j \in 1..i : i - j < window}

\* lines 70-79: the positions rolling(window) looks at for row i: the last
\* `window` rows up to i of the group of row i (of the table when it is not
\* grouped); a row whose station is null belongs to no group
WindowOf(rows, i, by_station, window) ==
    LET own == {j \in 1..i : ~by_station
                              \/ (/\ rows[i].station.k # "null"
                                  /\ rows[j].station = rows[i].station)}
    IN  {j \in own : Cardinality({m \in own : m >= j}) <= window}

\* the values rolling(window) looks at for row i, in row order
WindowValues(rows, i, by_station, window) ==
    LET W == WindowOf(rows, i, by_station, window)
        at == SelectSeq([j \in 1..Len(rows) |-> j], LAMBDA j : j \in W)
    IN  [p \in 1..Len(at) |-> rows[at[p]].value]

SumSq(vals) == SumSeq([p \in 1..Len(vals) |-> vals[p] * vals[p]])

Undefined == [defined |-> FALSE, num |-> 0, den |-> 1]

\* lines 72 and 78: rolling(window, min_periods).mean() at row i, the ratio
\* num / den, undefined with fewer than min_periods rows in the window
RollingMean(rows, i, by_station, cfg) ==
    LET vals == WindowValues(rows, i, by_station, cfg.window)
    IN  IF Len(vals) >= cfg.min_periods /\ vals # <<>>
        THEN [defined |-> TRUE, num |-> SumSeq(vals), den |-> Len(vals)]
        ELSE Undefined

\* faulty variant: std() with the default ddof = 1, the variance being
\* (k * sum of squares - S^2) / (k * (k - 1)), undefined for one value
RollingStdSample(rows, i, by_station, cfg) ==
    LET vals == WindowValues(rows, i, by_station, cfg.window)
        k == Len(vals)
    IN  IF k >= cfg.min_periods /\ k >= 2
        THEN [defined |-> TRUE,
              num |-> (k * SumSq(vals) - SumSeq(vals) * SumSeq(vals))
                      * k * (k - 1),
              den |-> k * (k - 1)]
        ELSE Undefined

\* lines 75 and 79: rolling(window, min_periods).std(ddof=0) at row i. With
\* k rows of sum S in the window the population variance is
\* (k * sum of squares - S^2) / k^2, so the deviation is sqrt(num) / den.
RollingStd(rows, i, by_station, cfg) ==
    LET vals == WindowValues(rows, i, by_station, cfg.window)
        k == Len(vals)
    IN  IF k >= cfg.min_periods /\ vals # <<>>
        THEN [defined |-> TRUE,
              num |-> k * SumSq(vals) - SumSeq(vals) * SumSeq(vals),
              den |-> k]
        ELSE Undefined

\* faulty variant: a zero deviation is kept
KeepZero(std) == std

\* line 82: replace(0, np.nan)
ReplaceZero(std) == IF std.defined /\ std.num = 0 THEN Undefined ELSE std

\* line 83: (value - rolling_mean) / rolling_std, the ratio num / sqrt(den);
\* mean and std of one row have the same den k, so that
\* z = (k * value - S) / sqrt(std.num)
ZScore(value, mean, std) ==
    IF mean.defined /\ std.defined
    THEN [defined |-> TRUE, num |-> mean.den * value - mean.num,
          den |-> std.num]
    ELSE Undefined

\* z >= t for a defined z = num / sqrt(den) and a ratio t, in integers
ZGeq(z, t) ==
    IF t.num > 0
    THEN z.num >= 0 /\ z.num * z.num * t.den * t.den >= t.num * t.num * z.den
    ELSE z.num >= 0 \/ z.num * z.num * t.den * t.den <= t.num * t.num * z.den

Negated(z) == [defined |-> z.defined, num |-> -z.num, den |-> z.den]

\* faulty variant: the flag ignores the sign, so drops are never flagged
IsAnomalyNoAbs(z, t) == z.defined /\ ZGeq(z, t)

\* faulty variant: a threshold that is not positive flags nothing
IsAnomalyPositiveOnly(z, t) ==
    z.defined /\ t.num > 0 /\ (ZGeq(z, t) \/ ZGeq(Negated(z), t))

\* line 86: z_score.abs() >= z_threshold; a comparison with NaN is False
IsAnomaly(z, t) == z.defined /\ (ZGeq(z, t) \/ ZGeq(Negated(z), t))

\* faulty variant: the inner np.where is missing, a drop is "normal"
AnomalyTypeNoDrop(z, t) ==
    IF z.defined /\ ZGeq(z, t) THEN "spike" ELSE "normal"

\* lines 89-90
AnomalyType(z, t) ==
    IF z.defined /\ ZGeq(z, t) THEN "spike"
    ELSE IF z.defined /\ ZGeq(Negated(z), t) THEN "drop"
    ELSE "normal"

\* lines 60-92
detect_anomalies(series_df, cfg) ==
    LET by_station == ByStation(series_df, cfg)
        rows == SortRows(series_df.rows, by_station)
        mean(i) == RollingMean(rows, i, by_station, cfg)
        std(i) == ReplaceZero(RollingStd(rows, i, by_station, cfg))
        z(i) == ZScore(rows[i].value, mean(i), std(i))
    IN  [grouped |-> series_df.grouped,
         rows |-> [i \in 1..Len(rows) |->
                      [date |-> rows[i].date, station |-> rows[i].station,
                       value |-> rows[i].value,
                       rolling_mean |-> mean(i), rolling_std |-> std(i),
                       z_score |-> z(i),
                       is_anomaly |-> IsAnomaly(z(i), cfg.z_threshold),
                       anomaly_type |-> AnomalyType(z(i), cfg.z_threshold)]]]

\* detect_anomalies called on the series prepare_daily_series returned
DetectAnomalies ==
    /\ pc = "prepared"
    /\ scored' = detect_anomalies(series, call.cfg)
    /\ pc' = "scored"
    /\ UNCHANGED <<disk_raw, disk_out, disk_out0, config, df_raw, df_clean,
                   issues, anomalies, result, err, log, std_out, call, series>>

NextAnomaly ==
    \/ PrepareDailySeries
    \/ DetectAnomalies

----------------------------------------------------------------------------
(* prepare_daily_series, then detect_anomalies on what it returned         *)

MaxPrepRows == 2    \* rows of a table of SpecPrepare
MaxScoreRows == 5   \* rows of a table of SpecScore

col_d == <<Ord.d>>
col_v == <<Ord.v>>
col_s == <<Ord.s>>
raw_d == <<Ord.sp, Ord.D>>
raw_v == <<Ord.V>>
raw_s == <<Ord.S, Ord.sp>>

\* the text "D/M H"
DateText(day, month, hour) ==
    Txt(<<Ord.zero + day, Ord.sl, Ord.zero + month, Ord.sp, Ord.zero + hour>>)

Garbage == Txt(<<Ord.x>>)

DateCells == {DateText(1, 2, 0), DateText(1, 2, 9), DateText(2, 2, 0), Garbage}

ValueCells ==
    {Txt(<<Ord.zero + 1, Ord.zero>>), Txt(<<Ord.zero + 3, Ord.zero>>), Garbage}

StationCells == {Txt(<<Ord.a>>), Txt(<<Ord.b>>), Null}

PrepCells(name) ==
    IF name = raw_d THEN DateCells
    ELSE IF name = raw_v THEN ValueCells
    ELSE StationCells

PrepRows(header) ==
    {r \in [1..Len(header) -> DateCells \cup ValueCells \cup StationCells] :
        \A j \in 1..Len(header) : r[j] \in PrepCells(header[j])}

PrepHeaders ==
    {<<raw_d, raw_v, raw_s>>, <<raw_v, raw_d>>, <<raw_v, raw_s>>,
     <<raw_d, raw_s>>}

Threshold(num, den) == [num |-> num, den |-> den]

PrepConfigs ==
    {AnomalyConfig(col_d, col_v, c[1], c[2], 3, Threshold(3, 1), 3) :
        c \in {<<col_s, "D">>, <<<<>>, "D">>, <<col_s, "h">>}}

InitPrepare ==
    \E header \in PrepHeaders, cfg \in PrepConfigs, k \in 0..MaxPrepRows :
        \E rows \in [1..k -> PrepRows(header)] :
            InitCall(PrepareCall([columns |-> header, rows |-> rows], cfg))

SpecPrepare == InitPrepare /\ [][NextAnomaly]_vars

\* one bucket a day from the first of February on, each row with a value
\* and a station
ScoreRows(k) ==
    {[i \in 1..k |-> <<DateText(i, 2, 0), cells[i][1], cells[i][2]>>] :
        cells \in [1..k -> {Num(0), Num(4)} \X {Txt(<<Ord.a>>), Txt(<<Ord.b>>)}]}

ScoreTables ==
    {[columns |-> <<raw_d, raw_v, raw_s>>, rows |-> rows] :
        rows \in UNION {ScoreRows(k) : k \in 0..MaxScoreRows}}

ScoreConfigs ==
    {AnomalyConfig(col_d, col_v, station_col, "D", w[1], z, w[2]) :
        station_col \in {col_s, <<>>},
        w \in {<<2, 1>>, <<2, 2>>, <<3, 1>>, <<3, 2>>, <<3, 3>>},
        z \in {Threshold(1, 1), Threshold(3, 2)}}
    \cup {AnomalyConfig(col_d, col_v, station_col, "D", w[1], z, w[2]) :
             station_col \in {col_s, <<>>},
             w \in {<<2, 1>>, <<3, 3>>},
             z \in {Threshold(0, 1), Threshold(-1, 1)}}

InitScore ==
    \E df \in ScoreTables, cfg \in ScoreConfigs : InitCall(PrepareCall(df, cfg))

SpecScore == InitScore /\ [][NextAnomaly]_vars

----------------------------------------------------------------------------
(* detect_anomalies called on series of two groups in any row order        *)

MaxGroupDays == 3   \* buckets a group of SpecGroups can have

station_a == Txt(<<Ord.a>>)
station_b == Txt(<<Ord.b>>)

\* what a group has on each day: no bucket, or a bucket of value 0 or 4
GroupChoices == [1..MaxGroupDays -> {Null, Num(0), Num(4)}]

\* the rows of one group, one a day where it has a bucket, oldest first
GroupRows(station, f) ==
    LET days == SelectSeq([d \in 1..MaxGroupDays |-> d],
                          LAMBDA d : f[d].k = "num")
    IN  [p \in 1..Len(days) |->
            [date |-> 24 * days[p], station |-> station,
             value |-> f[days[p]].n]]

\* what the other group can hold next to the group that is looked at
OtherChoices ==
    {[d \in 1..MaxGroupDays |-> Null],
     [d \in 1..MaxGroupDays |-> Num(4)],
     [d \in 1..MaxGroupDays |-> IF d = 1 THEN Num(0) ELSE Null],
     [d \in 1..MaxGroupDays |-> IF d % 2 = 1 THEN Num(4) ELSE Num(0)]}

Reverse(s) == [i \in 1..Len(s) |-> s[Len(s) + 1 - i]]

RowOrders == {"groups", "by_date", "by_date_reversed"}

\* the rows of two groups in one table: one group after the other, or by
\* date as prepare_daily_series returns them, or by date backwards
Arrange(rows, others, order) ==
    CASE order = "groups" -> rows \o others
      [] order = "by_date" -> SortRows(rows \o others, FALSE)
      [] order = "by_date_reversed" -> Reverse(SortRows(others \o rows, FALSE))

GroupConfigs ==
    {AnomalyConfig(col_d, col_v, col_s, "D", w[1], Threshold(1, 1), w[2]) :
        w \in {<<2, 1>>, <<3, 2>>}}

AnomaliesCall(series_df, cfg) ==
    [fn |-> "detect_anomalies", series_df |-> series_df, cfg |-> cfg]

InitGroups ==
    \E fa \in GroupChoices, fb \in OtherChoices, order \in RowOrders,
       cfg \in GroupConfigs :
        InitCall(AnomaliesCall(
                     [grouped |-> TRUE,
                      rows |-> Arrange(GroupRows(station_a, fa),
                                       GroupRows(station_b, fb), order)],
                     cfg))

\* detect_anomalies(series_df, cfg) called directly
DetectAnomaliesCall ==
    /\ pc = "call"
    /\ call.fn = "detect_anomalies"
    /\ scored' = detect_anomalies(call.series_df, call.cfg)
    /\ pc' = "called"
    /\ UNCHANGED <<disk_raw, disk_out, disk_out0, config, df_raw, df_clean,
                   issues, anomalies, result, err, log, std_out, call, series>>

NextGroups == DetectAnomaliesCall

SpecGroups == InitGroups /\ [][NextGroups]_vars

----------------------------------------------------------------------------
(* standardize_column_names applied to its own result                      *)

NameChars == {Ord.tab, Ord.sp, Ord.hy, Ord.A, Ord.us, Ord.a}

RawNames == UNION {[1..k -> NameChars] : k \in 0..MaxNameLen}

\* one row, so that the cells are seen to be carried over
StdTables ==
    {[columns |-> <<name>>, rows |-> <<<<Num(5)>>>>] : name \in RawNames}
    \cup {[columns |-> <<name, other>>, rows |-> <<<<Num(5), Null>>>>] :
             name \in RawNames, other \in {<<Ord.a>>, <<Ord.A, Ord.hy>>}}

\* no pipeline runs: the table is handed to standardize_column_names
InitStd ==
    \E table \in StdTables :
        /\ pc = "standardize"
        /\ df_raw = table
        /\ std_out = <<>>
        /\ disk_raw = MissingFile
        /\ disk_out = NoFiles
        /\ disk_out0 = NoFiles
        /\ config = CHOOSE c \in PipelineConfigs : TRUE
        /\ df_clean = NoTable
        /\ issues = <<>>
        /\ anomalies = <<>>
        /\ result = NoResult
        /\ err = "none"
        /\ log = <<>>
        /\ call = NoCall
        /\ series = NoSeries
        /\ scored = NoSeries

\* standardize_column_names called on the table, then on what it returned
StandardizeAgain ==
    /\ pc = "standardize"
    /\ Len(std_out) < 2
    /\ std_out' = Append(std_out,
                         standardize_column_names(
                             IF std_out = <<>> THEN df_raw
                             ELSE std_out[Len(std_out)]))
    /\ UNCHANGED <<pc, disk_raw, disk_out, disk_out0, config, df_raw,
                   df_clean, issues, anomalies, result, err, log, other_vars>>

NextStd == StandardizeAgain

SpecStd == InitStd /\ [][NextStd]_vars

----------------------------------------------------------------------------
(* Every operation, in the pipeline or called by itself                    *)

InitPure == InitClean \/ InitStd \/ InitDetect \/ InitPrepare

NextPure == Next \/ NextStd \/ NextDetect \/ NextAnomaly

SpecPure == InitPure /\ [][NextPure]_vars

----------------------------------------------------------------------------
(* Properties                                                              *)

\* basic_cleaning has returned in this run
Cleaned == pc \in {"cleaned", "validated", "detected", "saved", "returned"}
           \/ (pc = "raised" /\ err \in {"TypeError", "ValueError"})

\* validate_schema has returned in this run
Validated == pc \in {"validated", "detected", "saved", "returned"}
             \/ (pc = "raised" /\ err = "ValueError")

\* positions of the issues of one kind about one column list
IssuesOf(kind, cols) ==
    {p \in 1..Len(issues) : issues[p].kind = kind /\ issues[p].cols = cols}

IssuesOfKind(kind) == {p \in 1..Len(issues) : issues[p].kind = kind}

\* a sequence of names is strictly ascending and lists exactly the set S
ListsSorted(cols, S) ==
    /\ Range(cols) = S
    /\ \A i, j \in 1..Len(cols) : i < j => StrLess(cols[i], cols[j])

\* C1: standardize_columns is idempotent: applying it to its own result
\* returns the same column names and the same cells, for every raw name made
\* of whitespace, upper case, hyphens, underscores and lower case.
C1_StandardizeIdempotent ==
    Len(std_out) = 2 => std_out[2] = std_out[1]

\* C1 witness: a name with a leading space, an upper-case letter and a hyphen
\* has been standardized twice, and the first call changed it
C1_Witness ==
    /\ Len(std_out) = 2
    /\ df_raw.columns[1] = <<Ord.sp, Ord.A, Ord.hy>>
    /\ std_out[1].columns[1] = <<Ord.a, Ord.us>>
    /\ std_out[1].rows = df_raw.rows

\* C2: basic_clean returns exactly one row per distinct row of the input, in
\* the order of the first occurrences (each row with its text cells trimmed):
\* only exact duplicates of an earlier row are discarded, nothing is reordered.
C2_DistinctRowsFirstSeenOrder ==
    Cleaned =>
        LET T == df_raw.rows
            MinIdx(r) == CHOOSE i \in 1..Len(T) :
                             T[i] = r /\ \A j \in 1..Len(T) : T[j] = r => i <= j
            First == {MinIdx(r) : r \in Range(T)}
            Rank(i) == Cardinality({j \in First : j <= i})
        IN  /\ Len(df_clean.rows) = Cardinality(Range(T))
            /\ \A i \in First : df_clean.rows[Rank(i)] = TrimRow(T[i])

\* C2 witness: the third row repeats the first, the second is different, two
\* rows remain
C2_Witness ==
    /\ Cleaned
    /\ NRows(df_raw) = 3
    /\ df_raw.rows[3] = df_raw.rows[1]
    /\ df_raw.rows[2] # df_raw.rows[1]
    /\ NRows(df_clean) = 2

\* C3: run_pipeline raises only when the source file is absent: for a file
\* that exists it completes whatever the expectation names, every violation
\* being accumulated in the issue list.
C3_RaisesOnlyForMissingFile ==
    disk_raw.exists => pc # "raised"

\* C4: with the source file missing, run_pipeline raises file-not-found
\* before any cleaning, validation or persistence: nothing is returned and
\* the output directory and its files are as they were.
C4_MissingFileIsFatal ==
    (~disk_raw.exists /\ pc # "start") =>
        /\ pc = "raised"
        /\ err = "FileNotFoundError"
        /\ result = NoResult
        /\ df_clean = NoTable
        /\ issues = <<>>
        /\ anomalies = <<>>
        /\ disk_out = disk_out0

\* C4 witness: the run of a missing file has raised, the output directory
\* still does not exist
C4_Witness ==
    /\ ~disk_raw.exists
    /\ pc = "raised"
    /\ err = "FileNotFoundError"
    /\ ~disk_out.exists

\* C5: the cleaned table is persisted before the report is returned, with or
\* without issues and anomalies: in the step that builds the report the
\* delimited file already holds the whole cleaned table and is not touched.
C5_SavedBeforeReport ==
    [][result' # result =>
          /\ disk_out.exists
          /\ disk_out.csv[config.name] = to_csv(df_clean)
          /\ disk_out' = disk_out]_vars

\* C5 witness: a report with issues and with anomalies has been returned and
\* the file holds the cleaned table
C5_Witness ==
    /\ pc = "returned"
    /\ result.issues # <<>>
    /\ result.anomaly_columns # <<>>
    /\ disk_out.csv[config.name] = to_csv(df_clean)
    /\ NRows(df_clean) > 0

\* the cleaned table violates nothing of the expectation
NoViolations(df, cfg) ==
    /\ Range(cfg.expected_columns) = Range(df.columns)
    /\ \A p \in 1..Len(cfg.non_null_columns) :
           /\ HasCol(df, cfg.non_null_columns[p])
           /\ \A i \in 1..NRows(df) :
                  Column(df, cfg.non_null_columns[p])[i].k # "null"
    /\ NRows(df) >= cfg.min_rows
    /\ \A p \in 1..Len(cfg.allowed_values) :
           HasCol(df, cfg.allowed_values[p].col) =>
               Range(Column(df, cfg.allowed_values[p].col))
                   \subseteq cfg.allowed_values[p].allowed
    /\ \A p \in 1..Len(cfg.value_ranges) :
           HasCol(df, cfg.value_ranges[p].col) =>
               \A i \in 1..NRows(df) :
                   LET cell == Column(df, cfg.value_ranges[p].col)[i]
                       e == cfg.value_ranges[p]
                   IN  cell.k = "num" =>
                           /\ e.has_min => cell.n >= e.min
                           /\ e.has_max => cell.n <= e.max
    /\ \A p \in 1..Len(cfg.unique_keys) :
           (\A q \in 1..Len(cfg.unique_keys[p]) :
                HasCol(df, cfg.unique_keys[p][q])) =>
               DuplicatedCount(df, cfg.unique_keys[p]) = 0

\* C6: when a report is returned, <dataset_name>_clean.csv holds exactly
\* n_rows_after data rows, those of the cleaned table, and a table without
\* violations gives an acceptable report.
C6_FileRowsMatchReport ==
    pc = "returned" =>
        /\ disk_out.csv[result.dataset_name].present
        /\ Len(disk_out.csv[result.dataset_name].records) = result.n_rows_after
        /\ result.n_rows_after = NRows(df_clean)
        /\ NoViolations(df_clean, config) => is_acceptable(result)

\* C6 witness: a table without violations, one duplicate row dropped, has
\* been saved and reported
C6_Witness ==
    /\ pc = "returned"
    /\ NoViolations(df_clean, config)
    /\ is_acceptable(result)
    /\ result.n_rows_after = 1
    /\ result.n_rows_before = 2
    /\ Len(disk_out.csv[result.dataset_name].records) = 1

\* C7: a report is acceptable exactly when its issue list is empty, for
\* is_acceptable() and for the is_acceptable field of to_dict(), whether or
\* not anomaly_columns is empty.
C7_AcceptableIffNoIssues ==
    pc = "returned" =>
        /\ is_acceptable(result) <=> result.issues = <<>>
        /\ to_dict(result).is_acceptable <=> result.issues = <<>>

\* C7 witness: a returned report without issues and with an anomaly column
\* is acceptable
C7_Witness ==
    /\ pc = "returned"
    /\ result.issues = <<>>
    /\ result.anomaly_columns # <<>>
    /\ to_dict(result).is_acceptable

\* C8: validate reports the column-set deviations as at most two issues: one
\* listing every missing expected column in sorted order iff one is missing,
\* and one listing every unexpected column in sorted order iff one is
\* unexpected.
C8_ColumnSetIssues ==
    Validated =>
        LET missing == Range(config.expected_columns) \ Range(df_clean.columns)
            extra == Range(df_clean.columns) \ Range(config.expected_columns)
        IN  /\ Cardinality(IssuesOfKind("missing_columns"))
                   = (IF missing = {} THEN 0 ELSE 1)
            /\ Cardinality(IssuesOfKind("unexpected_columns"))
                   = (IF extra = {} THEN 0 ELSE 1)
            /\ \A p \in IssuesOfKind("missing_columns") :
                   ListsSorted(issues[p].cols, missing)
            /\ \A p \in IssuesOfKind("unexpected_columns") :
                   ListsSorted(issues[p].cols, extra)

\* C8 witness: expected {a, b} against columns {a, c}: b is reported missing
\* and c unexpected
C8_Witness ==
    /\ Validated
    /\ Range(config.expected_columns) = {col_a, col_b}
    /\ Range(df_clean.columns) = {col_a, col_c}
    /\ issues[1].kind = "missing_columns" /\ issues[1].cols = <<col_b>>
    /\ issues[2].kind = "unexpected_columns" /\ issues[2].cols = <<col_c>>

\* C9: for each column of non_null_columns, validate emits exactly one issue
\* carrying the null count if the column is present with a null, exactly one
\* 'missing from dataframe' issue if it is absent, and none if it is present
\* without nulls.
C9_NonNullIssues ==
    Validated =>
        \A col \in Range(config.non_null_columns) :
            LET present == col \in Range(df_clean.columns)
                nulls == IF present
                         THEN {i \in 1..NRows(df_clean) :
                                  df_clean.rows[i][ColIdx(df_clean, col)].k
                                      = "null"}
                         ELSE {}
            IN  /\ Cardinality(IssuesOf("null_values", <<col>>))
                       = (IF present /\ nulls # {} THEN 1 ELSE 0)
                /\ \A p \in IssuesOf("null_values", <<col>>) :
                       issues[p].n = Cardinality(nulls)
                /\ Cardinality(IssuesOf("non_null_missing", <<col>>))
                       = (IF present THEN 0 ELSE 1)

\* C9 witness: one expectation yields a null-count issue of count 2, a
\* missing-column issue, and nothing for a present column without nulls
C9_Witness ==
    /\ Validated
    /\ config.non_null_columns = <<col_z, col_c, col_a>>
    /\ \E p \in IssuesOf("null_values", <<col_c>>) : issues[p].n = 2
    /\ IssuesOf("non_null_missing", <<col_z>>) # {}
    /\ IssuesOf("null_values", <<col_a>>) = {}
    /\ HasCol(df_clean, col_a)

\* C10: validate emits the row-count issue iff the table has strictly fewer
\* rows than min_rows, and the issue states the actual and the required
\* count; a table of exactly min_rows rows gets none.
C10_RowCountIssue ==
    Validated =>
        /\ Cardinality(IssuesOfKind("row_count"))
               = (IF NRows(df_clean) < config.min_rows THEN 1 ELSE 0)
        /\ \A p \in IssuesOfKind("row_count") :
               issues[p].n = NRows(df_clean) /\ issues[p].m = config.min_rows

\* C10 witness: one row against min_rows = 2 is reported with both numbers
C10_Witness ==
    /\ Validated
    /\ NRows(df_clean) = 1
    /\ config.min_rows = 2
    /\ \E p \in IssuesOfKind("row_count") : issues[p].n = 1 /\ issues[p].m = 2

\* the cells of one column of the cleaned table, none when it is absent
CleanColumn(col) ==
    IF HasCol(df_clean, col) THEN Column(df_clean, col) ELSE <<>>

\* C11: for each value-range constraint on a present column, validate emits
\* a below-minimum issue iff a minimum is given and some value is strictly
\* less than it, and independently an above-maximum issue iff a maximum is
\* given and some value is strictly greater than it; a value equal to a
\* bound fires nothing and an absent bound is not checked.
C11_RangeIssues ==
    Validated =>
        \A k \in 1..Len(config.value_ranges) :
            LET e == config.value_ranges[k]
                vals == CleanColumn(e.col)
                below == /\ e.has_min
                         /\ \E i \in 1..Len(vals) :
                                vals[i].k = "num" /\ vals[i].n < e.min
                above == /\ e.has_max
                         /\ \E i \in 1..Len(vals) :
                                vals[i].k = "num" /\ vals[i].n > e.max
            IN  HasCol(df_clean, e.col) =>
                    /\ Cardinality(IssuesOf("below_minimum", <<e.col>>))
                           = (IF below THEN 1 ELSE 0)
                    /\ Cardinality(IssuesOf("above_maximum", <<e.col>>))
                           = (IF above THEN 1 ELSE 0)

\* C11 witness: the values 0 and 5 against the range [1, 3] fire both issues
C11_Witness ==
    /\ Validated
    /\ config.value_ranges = <<RangeOf(col_c, TRUE, 1, TRUE, 3)>>
    /\ Range(CleanColumn(col_c)) = {Num(0), Num(5)}
    /\ IssuesOf("below_minimum", <<col_c>>) # {}
    /\ IssuesOf("above_maximum", <<col_c>>) # {}

\* the distinct values the rows of the cleaned table take on a key
KeyValues(key) ==
    {[p \in 1..Len(key) |-> CleanColumn(key[p])[i]] :
        i \in 1..NRows(df_clean)}

\* C12: for each unique key whose columns are all present, validate emits
\* exactly one issue iff some row repeats the key of an earlier row, and
\* its count is the number of rows that repeat an earlier row (the rows
\* minus the distinct keys); a key with an absent column yields no issue.
C12_UniqueKeyIssues ==
    Validated =>
        \A k \in 1..Len(config.unique_keys) :
            LET key == config.unique_keys[k]
                all_present == \A p \in 1..Len(key) : HasCol(df_clean, key[p])
                repeats == IF all_present
                           THEN NRows(df_clean) - Cardinality(KeyValues(key))
                           ELSE 0
            IN  /\ Cardinality(IssuesOf("duplicated_key", key))
                       = (IF repeats > 0 THEN 1 ELSE 0)
                /\ \A p \in IssuesOf("duplicated_key", key) :
                       issues[p].n = repeats

\* C12 witness: two rows that agree on (a, c) once trimmed are one repeat,
\* and the key naming the absent column z is passed over
C12_Witness ==
    /\ Validated
    /\ config.unique_keys = <<<<col_c>>, <<col_z>>, <<col_c, col_a>>>>
    /\ NRows(df_clean) = 2
    /\ df_clean.rows[1] = df_clean.rows[2]
    /\ \E p \in IssuesOf("duplicated_key", <<col_c, col_a>>) : issues[p].n = 1
    /\ IssuesOf("duplicated_key", <<col_z>>) = {}

\* C13: for each allowed-value constraint on a present column, validate
\* emits exactly one issue iff some row holds a value outside the allowed
\* set, and the issue lists each distinct invalid value once; a column
\* whose values are all allowed yields no issue.
C13_AllowedValueIssues ==
    Validated =>
        \A k \in 1..Len(config.allowed_values) :
            LET e == config.allowed_values[k]
                invalid == Range(CleanColumn(e.col)) \ e.allowed
            IN  HasCol(df_clean, e.col) =>
                    /\ Cardinality(IssuesOf("outside_allowed", <<e.col>>))
                           = (IF invalid # {} THEN 1 ELSE 0)
                    /\ \A p \in IssuesOf("outside_allowed", <<e.col>>) :
                           /\ Range(issues[p].vals) = invalid
                           /\ Len(issues[p].vals) = Cardinality(invalid)

\* C13 witness: two rows hold the same invalid value b, listed once
C13_Witness ==
    /\ Validated
    /\ config.allowed_values = <<AllowedOf(col_a, {Txt(<<Ord.a>>)})>>
    /\ CleanColumn(col_a) = <<col_b_text, col_b_text>>
    /\ \E p \in IssuesOf("outside_allowed", <<col_a>>) :
           issues[p].vals = <<col_b_text>>

\* the rows of the called table whose value is at least z population
\* deviations (the squared deviations divided by N) from the column mean
PopulationFlagged(df, col, z) ==
    LET vals == Values(df, col)
        n == Len(vals)
    IN  SelectSeq(df.rows,
                  LAMBDA row :
                      /\ row[ColIdx(df, col)].k = "num"
                      /\ SumSqDev(vals) > 0
                      /\ Dev(vals, row[ColIdx(df, col)].n)
                             * Dev(vals, row[ColIdx(df, col)].n) * n
                             * z.den * z.den
                           >= z.num * z.num * SumSqDev(vals))

\* C14: detect_numeric_anomalies flags exactly the rows with
\* |z| >= z_threshold, z taken from the whole-column mean and the population
\* standard deviation (divide by N, not N - 1).
C14_FlagsByPopulationStd ==
    (pc = "called" /\ call.fn = "detect_numeric_anomalies") =>
        LET rows == PopulationFlagged(call.df, col_c, call.z_threshold)
        IN  anomalies = (IF rows = <<>> THEN <<>>
                         ELSE <<[col |-> col_c, rows |-> rows]>>)

\* the example of C14: in (1, 1, 1, 1, 100) with z_threshold 1.5 the row
\* holding 100 is flagged and no other
C14_ExampleFlagsOnly100 ==
    (/\ pc = "called"
     /\ call.fn = "detect_numeric_anomalies"
     /\ Column(call.df, col_c) = <<Num(1), Num(1), Num(1), Num(1), Num(100)>>
     /\ call.z_threshold = [num |-> 3, den |-> 2])
        => anomalies = <<[col |-> col_c, rows |-> <<<<Num(100)>>>>]>>

\* prepare_daily_series was called and has returned or raised
PrepareDone ==
    call.fn = "prepare_daily_series" /\ pc \in {"prepared", "scored", "raised"}

\* prepare_daily_series has returned the series
Prepared == call.fn = "prepare_daily_series" /\ pc \in {"prepared", "scored"}

\* C15: prepare_series fails with a configuration error whenever the
\* configured date column or measurement column is absent from the table
\* once its column names are trimmed and lower-cased; when both are present
\* it does not raise.
C15_RaisesIffRequiredColumnAbsent ==
    PrepareDone =>
        LET names == {Lower(Strip(call.df.columns[j])) :
                         j \in 1..NCols(call.df)}
            absent == \/ call.cfg.date_col \notin names
                      \/ call.cfg.value_col \notin names
        IN  /\ absent => pc = "raised" /\ err = "ValueError"
            /\ ~absent => pc # "raised" /\ err = "none"

\* C15 witness: a table without the date column is refused, series unset
C15_Witness ==
    /\ call.fn = "prepare_daily_series"
    /\ pc = "raised"
    /\ err = "ValueError"
    /\ call.df.columns = <<raw_v, raw_s>>
    /\ NRows(call.df) = 2
    /\ series = NoSeries

\* the rows handed to prepare_daily_series, each with what its cells parse
\* to: the bucket of its date, its group (null when the series is not
\* grouped), and its measurement
InputRows ==
    LET dfx == NormColumns(call.df)
    IN  [i \in 1..NRows(call.df) |->
            LET date == to_datetime(Column(dfx, call.cfg.date_col)[i])
                value == Column(dfx, call.cfg.value_col)[i]
            IN  [date_ok |-> date.ok,
                 date |-> Floor(date.ts, call.cfg.freq),
                 station |-> IF series.grouped
                             THEN Column(dfx, call.cfg.station_col)[i]
                             ELSE Null,
                 value_ok |-> \/ value.k = "num"
                              \/ value.k = "txt" /\ IsDigits(value.s),
                 value |-> to_numeric_fillna(value)]]

\* the value the claim gives the bucket key: the measurements of the rows of
\* the bucket whose date parses, an unparseable one counting zero
ExpectedSum(key) ==
    LET members == SelectSeq(InputRows,
                             LAMBDA r : r.date_ok /\ GroupKey(r) = key)
    IN  SumSeq([i \in 1..Len(members) |->
                   IF members[i].value_ok THEN members[i].value ELSE 0])

SeriesKeys == {GroupKey(series.rows[p]) : p \in 1..Len(series.rows)}

\* C16 as stated: a row whose date cannot be parsed contributes to no
\* bucket, and a row with a parseable date and an unparseable measurement
\* is retained: its bucket is in the series, with the sum to which the row
\* contributes zero.
C16_BadDateDroppedBadValueZero ==
    Prepared =>
        /\ \A i \in 1..Len(InputRows) :
               (InputRows[i].date_ok /\ ~InputRows[i].value_ok)
                   => GroupKey(InputRows[i]) \in SeriesKeys
        /\ \A p \in 1..Len(series.rows) :
               series.rows[p].value = ExpectedSum(GroupKey(series.rows[p]))

\* no row with a parseable date lacks its group key
GroupKeysPresent ==
    \A i \in 1..Len(InputRows) :
        InputRows[i].date_ok /\ series.grouped
            => InputRows[i].station.k # "null"

\* what holds of C16: the statement for the tables in which every row with
\* a parseable date has its group key
RetainedWhenGroupKeysPresent ==
    (Prepared /\ GroupKeysPresent) => C16_BadDateDroppedBadValueZero

\* C17 as stated: the series has exactly one row per (bucket, group) pair
\* that occurs among the input rows with a parseable date (per bucket when
\* it is not grouped), and no row for a pair that does not occur.
C17_OneRowPerOccurringPair ==
    Prepared =>
        /\ SeriesKeys = {GroupKey(InputRows[i]) :
                            i \in {j \in 1..Len(InputRows) :
                                      InputRows[j].date_ok}}
        /\ Cardinality(SeriesKeys) = Len(series.rows)

\* what holds of C17: the statement for the tables in which every row with
\* a parseable date has its group key
OneRowPerPairWhenGroupKeysPresent ==
    (Prepared /\ GroupKeysPresent) => C17_OneRowPerOccurringPair

Scored == call.fn = "prepare_daily_series" /\ pc = "scored"

\* the rows of the scored table in the trailing window of row p: the last
\* `window` buckets of its own group (of the table when it is not grouped)
\* up to its own bucket
TrailingWindow(p) ==
    LET own == {q \in 1..Len(scored.rows) :
                   /\ scored.rows[q].station = scored.rows[p].station
                   /\ scored.rows[q].date <= scored.rows[p].date}
    IN  {q \in own :
            Cardinality({m \in own : scored.rows[m].date >= scored.rows[q].date})
                <= call.cfg.window}

\* C18: a bucket with fewer than min_periods buckets of its own group in
\* its trailing window has undefined rolling mean, rolling deviation and
\* z-score, and is not flagged; with window = 3 and min_periods = 3 the
\* first two buckets of every group are never flagged.
C18_TooFewBucketsUndefined ==
    Scored =>
        \A p \in 1..Len(scored.rows) :
            Cardinality(TrailingWindow(p)) < call.cfg.min_periods =>
                /\ ~scored.rows[p].rolling_mean.defined
                /\ ~scored.rows[p].rolling_std.defined
                /\ ~scored.rows[p].z_score.defined
                /\ ~scored.rows[p].is_anomaly

\* C18 witness: with window = 3 and min_periods = 3 a group of three
\* buckets has the first two undefined and the third scored and flagged
C18_Witness ==
    /\ Scored
    /\ call.cfg.window = 3
    /\ call.cfg.min_periods = 3
    /\ scored.grouped
    /\ \E p \in 1..Len(scored.rows) :
           /\ scored.rows[p].is_anomaly
           /\ Cardinality(TrailingWindow(p)) = 3
           /\ \A q \in TrailingWindow(p) \ {p} :
                  ~scored.rows[q].z_score.defined /\ ~scored.rows[q].is_anomaly
    /\ \E p, q \in 1..Len(scored.rows) :
           scored.rows[p].station # scored.rows[q].station

\* C19: a bucket whose rolling deviation is exactly zero (a full enough
\* window of equal values) has undefined rolling_std and z-score and is not
\* flagged, whatever its value and the threshold; no row has an infinite
\* z-score (a z-score with a zero denominator).
C19_ZeroStdUndefined ==
    Scored =>
        \A p \in 1..Len(scored.rows) :
            /\ (/\ Cardinality(TrailingWindow(p)) >= call.cfg.min_periods
                /\ \A q \in TrailingWindow(p) :
                       scored.rows[q].value = scored.rows[p].value)
                   => /\ ~scored.rows[p].rolling_std.defined
                      /\ ~scored.rows[p].z_score.defined
                      /\ ~scored.rows[p].is_anomaly
            /\ scored.rows[p].z_score.defined => scored.rows[p].z_score.den > 0
            /\ scored.rows[p].rolling_std.defined
                   => scored.rows[p].rolling_std.num > 0

\* C19 witness: a window of two buckets of value 4 has a mean and no
\* deviation, and is not flagged
C19_Witness ==
    /\ Scored
    /\ \E p \in 1..Len(scored.rows) :
           /\ Cardinality(TrailingWindow(p)) = 2
           /\ \A q \in TrailingWindow(p) : scored.rows[q].value = 4
           /\ scored.rows[p].rolling_mean = [defined |-> TRUE, num |-> 8, den |-> 2]
           /\ scored.rows[p].rolling_std = Undefined
           /\ ~scored.rows[p].is_anomaly

\* C20: is_anomaly is true exactly when the z-score is defined and
\* |z| >= z_threshold, where z = (value - rolling_mean) / rolling_std is
\* defined exactly when mean and deviation are; with z = num / sqrt(den),
\* mean = num / den and deviation = sqrt(num) / den the equation is stated
\* squared, with the sign of z that of value - mean.
C20_FlagIffAbsZAtLeastThreshold ==
    Scored =>
        \A p \in 1..Len(scored.rows) :
            LET r == scored.rows[p]
                z == r.z_score
                t == call.cfg.z_threshold
                diff == r.value * r.rolling_mean.den - r.rolling_mean.num
            IN  /\ z.defined <=> (r.rolling_mean.defined /\ r.rolling_std.defined)
                /\ z.defined =>
                       /\ z.num * z.num * r.rolling_std.num
                              * r.rolling_mean.den * r.rolling_mean.den
                          = z.den * r.rolling_std.den * r.rolling_std.den
                              * diff * diff
                       /\ (z.num > 0) = (diff > 0)
                       /\ (z.num < 0) = (diff < 0)
                /\ r.is_anomaly <=>
                       (/\ z.defined
                        /\ \/ t.num <= 0
                           \/ z.num * z.num * t.den * t.den
                                  >= t.num * t.num * z.den)

\* C20 witness: a z-score of exactly -1 against the threshold 1 is flagged,
\* and a row with a smaller |z| is not
C20_Witness ==
    /\ Scored
    /\ call.cfg.z_threshold = Threshold(1, 1)
    /\ \E p \in 1..Len(scored.rows) :
           /\ scored.rows[p].z_score.defined
           /\ scored.rows[p].z_score.num < 0
           /\ scored.rows[p].z_score.num * scored.rows[p].z_score.num
                  = scored.rows[p].z_score.den
           /\ scored.rows[p].is_anomaly
    /\ \E p \in 1..Len(scored.rows) :
           scored.rows[p].z_score.defined /\ ~scored.rows[p].is_anomaly

\* z >= t for the z-score z = num / sqrt(den) of a scored row and the
\* threshold t = num / den, by the signs and the squares of the two sides
AtLeast(z, t) ==
    /\ z.defined
    /\ IF z.num >= 0 /\ t.num <= 0 THEN TRUE
       ELSE IF z.num < 0 /\ t.num > 0 THEN FALSE
       ELSE IF z.num >= 0
            THEN z.num * z.num * t.den * t.den >= t.num * t.num * z.den
            ELSE z.num * z.num * t.den * t.den <= t.num * t.num * z.den

\* z <= -t
AtMostMinus(z, t) ==
    AtLeast([defined |-> z.defined, num |-> -z.num, den |-> z.den], t)

\* C21: in every row detect_anomalies returns the direction label is
\* "spike" when the z-score is defined and >= +z_threshold, "drop" when it
\* is defined and <= -z_threshold (and not >= +z_threshold, the cases being
\* read in order), and "normal" otherwise, every row with an undefined
\* z-score included; the label is one of the three.
C21_DirectionLabel ==
    Scored =>
        \A p \in 1..Len(scored.rows) :
            LET r == scored.rows[p]
                t == call.cfg.z_threshold
            IN  /\ r.anomaly_type \in {"spike", "drop", "normal"}
                /\ AtLeast(r.z_score, t) => r.anomaly_type = "spike"
                /\ (~AtLeast(r.z_score, t) /\ AtMostMinus(r.z_score, t))
                       => r.anomaly_type = "drop"
                /\ (~AtLeast(r.z_score, t) /\ ~AtMostMinus(r.z_score, t))
                       => r.anomaly_type = "normal"
                /\ ~r.z_score.defined => r.anomaly_type = "normal"

\* C21 witness: one scored table holds a spike, a drop, a normal row with
\* a z-score and a normal row without one
C21_Witness ==
    /\ Scored
    /\ call.cfg.z_threshold = Threshold(1, 1)
    /\ \E p \in 1..Len(scored.rows) : scored.rows[p].anomaly_type = "spike"
    /\ \E p \in 1..Len(scored.rows) : scored.rows[p].anomaly_type = "drop"
    /\ \E p \in 1..Len(scored.rows) :
           scored.rows[p].anomaly_type = "normal" /\ scored.rows[p].z_score.defined
    /\ \E p \in 1..Len(scored.rows) :
           scored.rows[p].anomaly_type = "normal" /\ ~scored.rows[p].z_score.defined

\* C28: in every row detect_anomalies returns, for every threshold
\* (positive, zero or negative), is_anomaly is true iff the direction label
\* is "spike" or "drop", and false iff it is "normal".
C28_FlagIffSpikeOrDrop ==
    Scored =>
        \A p \in 1..Len(scored.rows) :
            /\ scored.rows[p].is_anomaly
                   <=> scored.rows[p].anomaly_type \in {"spike", "drop"}
            /\ ~scored.rows[p].is_anomaly
                   <=> scored.rows[p].anomaly_type = "normal"

\* C28 witness: against the threshold -1 a row is flagged and labelled
\* "drop", another "spike", and a row without z-score is "normal", unflagged
C28_Witness ==
    /\ Scored
    /\ call.cfg.z_threshold = Threshold(-1, 1)
    /\ \E p \in 1..Len(scored.rows) :
           scored.rows[p].is_anomaly /\ scored.rows[p].anomaly_type = "drop"
    /\ \E p \in 1..Len(scored.rows) :
           scored.rows[p].is_anomaly /\ scored.rows[p].anomaly_type = "spike"
    /\ \E p \in 1..Len(scored.rows) :
           /\ ~scored.rows[p].z_score.defined
           /\ ~scored.rows[p].is_anomaly
           /\ scored.rows[p].anomaly_type = "normal"

\* the values of the scored rows in the trailing window of row p
TrailingValues(p) ==
    LET in_window == {scored.rows[q] : q \in TrailingWindow(p)}
        members == SelectSeq(scored.rows, LAMBDA r : r \in in_window)
    IN  [i \in 1..Len(members) |-> members[i].value]

\* C27: the rolling mean and deviation of a bucket are taken over exactly
\* its own value and the up to window - 1 immediately preceding buckets of
\* its group (never a later bucket, never another group's), the deviation
\* dividing by the number N of values in the window: mean = S / N and
\* deviation^2 = (N * sum of squares - S^2) / N^2, the deviation being
\* undefined where that is zero.
C27_TrailingWindowPopulationStd ==
    Scored =>
        \A p \in 1..Len(scored.rows) :
            LET r == scored.rows[p]
                vals == TrailingValues(p)
                N == Len(vals)
                S == SumSeq(vals)
                var == N * SumSeq([i \in 1..N |-> vals[i] * vals[i]]) - S * S
            IN  /\ r.rolling_mean.defined <=> N >= call.cfg.min_periods
                /\ r.rolling_mean.defined
                       => r.rolling_mean.num * N = r.rolling_mean.den * S
                /\ r.rolling_std.defined
                       <=> (N >= call.cfg.min_periods /\ var > 0)
                /\ r.rolling_std.defined
                       => r.rolling_std.num * N * N
                              = r.rolling_std.den * r.rolling_std.den * var

\* C27 witness: with window = 2 the third bucket of a group is scored over
\* its last two buckets (0 and 4: mean 2, deviation 2), an older bucket of
\* the group and a bucket of the other group in between being left out
C27_Witness ==
    /\ Scored
    /\ scored.grouped
    /\ call.cfg.window = 2
    /\ \E p, q, o \in 1..Len(scored.rows) :
           /\ TrailingValues(p) = <<0, 4>>
           /\ scored.rows[p].rolling_mean = [defined |-> TRUE, num |-> 4, den |-> 2]
           /\ scored.rows[p].rolling_std = [defined |-> TRUE, num |-> 16, den |-> 2]
           /\ scored.rows[q].station = scored.rows[p].station
           /\ q \notin TrailingWindow(p)
           /\ scored.rows[q].date < scored.rows[p].date
           /\ scored.rows[q].value = 4
           /\ scored.rows[o].station # scored.rows[p].station
           /\ \E w \in TrailingWindow(p) :
                  scored.rows[w].date < scored.rows[o].date
           /\ scored.rows[o].date < scored.rows[p].date

\* C29 as stated: the values of the series sum to the coerced measurements
\* (unparseable counted as zero) of the input rows whose date parses, and
\* every such row contributes to exactly one row of the series, the rows
\* whose group key is missing included.
C29_TotalConserved ==
    Prepared =>
        LET dated == SelectSeq(InputRows, LAMBDA r : r.date_ok)
        IN  /\ SumSeq([p \in 1..Len(series.rows) |-> series.rows[p].value])
                   = SumSeq([i \in 1..Len(dated) |-> dated[i].value])
            /\ \A i \in 1..Len(dated) :
                   Cardinality({p \in 1..Len(series.rows) :
                                   GroupKey(series.rows[p]) = GroupKey(dated[i])})
                       = 1

\* what holds of C29: the statement for the tables in which every row with
\* a parseable date has its group key
ConservedWhenGroupKeysPresent ==
    (Prepared /\ GroupKeysPresent) => C29_TotalConserved

PairwiseDistinct(rows) == Cardinality(Range(rows)) = Len(rows)

\* C30 as stated: the table basic_clean returns holds no two rows equal in
\* all columns, rows of the input that differ only by whitespace included;
\* so basic_clean applied to its own output returns the same rows, and
\* n_rows_after counts the distinct cleaned rows.
C30_NoEqualRowsIdempotent ==
    Cleaned =>
        /\ PairwiseDistinct(df_clean.rows)
        /\ basic_cleaning(df_clean, config).rows = df_clean.rows
        /\ result # NoResult
               => result.n_rows_after = Cardinality(Range(df_clean.rows))

\* C30 amended: the table basic_clean returns holds one row per distinct
\* row of the input, compared before the text is trimmed: two returned rows
\* are equal only if they come from input rows that differ by whitespace;
\* basic_clean applied to its own output drops those repeats and returns
\* the distinct cleaned rows, after which it changes nothing more; and
\* n_rows_after counts the distinct rows of the input.
C30_DistinctBeforeTrimming ==
    Cleaned =>
        LET again == basic_cleaning(df_clean, config)
        IN  /\ NRows(df_clean) = Cardinality(Range(df_raw.rows))
            /\ \A i, j \in 1..NRows(df_clean) :
                   (i < j /\ df_clean.rows[i] = df_clean.rows[j])
                       => \E u, v \in Range(df_raw.rows) :
                              /\ u # v
                              /\ TrimRow(u) = df_clean.rows[i]
                              /\ TrimRow(v) = df_clean.rows[j]
            /\ PairwiseDistinct(again.rows)
            /\ Range(again.rows) = Range(df_clean.rows)
            /\ basic_cleaning(again, config) = again
            /\ result # NoResult
                   => result.n_rows_after = Cardinality(Range(df_raw.rows))

\* C30 witness: the rows (" a", 0) and ("a", 0) both stay and are equal
\* once trimmed; the report counts two rows, a second cleaning leaves one
C30_Witness ==
    /\ pc = "returned"
    /\ df_raw.rows = <<<<Txt(<<Ord.sp, Ord.a>>), Num(0)>>, <<Txt(<<Ord.a>>), Num(0)>>>>
    /\ df_clean.rows = <<<<Txt(<<Ord.a>>), Num(0)>>, <<Txt(<<Ord.a>>), Num(0)>>>>
    /\ result.n_rows_after = 2
    /\ NRows(basic_cleaning(df_clean, config)) = 1

\* save_dataset was entered in this run
SaveEntered == "info: Saving cleaned dataset" \in Range(log)

\* the columnar write of this run failed: the file of the dataset is not
\* the cleaned table
ParquetFailed ==
    SaveEntered /\ disk_out.parquet[config.name] # to_parquet(df_clean)

\* C25: when the columnar write fails the failure is caught and only
\* logged: the delimited file has been written, no exception propagates,
\* and the pipeline returns the report it returns when the write succeeds,
\* which is made of the tables, the issues and the anomalies alone.
C25_ParquetFailureOnlyLogged ==
    ParquetFailed =>
        /\ pc \in {"saved", "returned"}
        /\ err = "none"
        /\ "warning: Could not save Parquet file" \in Range(log)
        /\ disk_out.csv[config.name] = to_csv(df_clean)
        /\ disk_out.parquet = disk_out0.parquet
        /\ pc = "returned" =>
               result = [dataset_name |-> config.name,
                         n_rows_before |-> NRows(df_raw),
                         n_rows_after |-> NRows(df_clean),
                         n_columns |-> NCols(df_clean),
                         issues |-> issues,
                         anomaly_columns |-> Keys(anomalies)]

\* C25 witness: a run whose columnar write failed has returned its report,
\* the delimited file written over the stale one, the stale columnar file
\* left as it was
C25_Witness ==
    /\ pc = "returned"
    /\ ParquetFailed
    /\ disk_out0 = StaleFiles
    /\ NRows(df_clean) = 2
    /\ result.n_rows_after = 2
    /\ disk_out.csv[config.name] = to_csv(df_clean)
    /\ disk_out.parquet[config.name] = to_parquet(StaleTable)

\* the values present in column col of the called table
CalledValues(col) ==
    {c.n : c \in {d \in Range(Column(call.df, col)) : d.k = "num"}}

\* how many cells of column col of the called table hold a value
CalledCount(col) ==
    Cardinality({i \in 1..NRows(call.df) : Column(call.df, col)[i].k = "num"})

\* C24: detect_numeric_anomalies never reports a column whose standard
\* deviation is zero or undefined (all values equal, fewer than two values),
\* a requested column absent from the table, or a column with no flagged
\* row: every key of the mapping is a requested column of the table with
\* two different values, reported once, and maps to a non-empty sub-table
\* of the rows of the table.
C24_OnlyColumnsWithFlaggedRows ==
    (pc = "called" /\ call.fn = "detect_numeric_anomalies") =>
        /\ \A p \in 1..Len(anomalies) :
               /\ anomalies[p].col \in Range(call.numeric_columns)
               /\ HasCol(call.df, anomalies[p].col)
               /\ CalledCount(anomalies[p].col) >= 2
               /\ Cardinality(CalledValues(anomalies[p].col)) >= 2
               /\ anomalies[p].rows # <<>>
               /\ Range(anomalies[p].rows) \subseteq Range(call.df.rows)
               /\ \A q \in 1..Len(anomalies) :
                      anomalies[q].col = anomalies[p].col => q = p
        /\ (Cardinality(CalledValues(col_c)) < 2 \/ CalledCount(col_c) < 2)
               => anomalies = <<>>

\* C24 witness: a table whose values are all equal, an absent column being
\* requested too, returns the empty mapping
C24_Witness ==
    /\ pc = "called"
    /\ call.fn = "detect_numeric_anomalies"
    /\ call.numeric_columns = <<col_z, col_c>>
    /\ ~HasCol(call.df, col_z)
    /\ NRows(call.df) = 3
    /\ CalledValues(col_c) = {1}
    /\ CalledCount(col_c) = 3
    /\ anomalies = <<>>

\* a table with a flagged row maps its column to the flagged rows only,
\* the absent column left out
C24_ReportsFlaggedColumn ==
    /\ pc = "called"
    /\ call.fn = "detect_numeric_anomalies"
    /\ call.numeric_columns = <<col_z, col_c>>
    /\ Keys(anomalies) = <<col_c>>
    /\ anomalies[1].rows = <<<<Num(100)>>>>

\* the place of a kind of issue in the order of the checks
KindRank(kind) ==
    CASE kind = "missing_columns" -> 1
      [] kind = "unexpected_columns" -> 2
      [] kind \in {"null_values", "non_null_missing"} -> 3
      [] kind = "row_count" -> 4
      [] kind = "outside_allowed" -> 5
      [] kind \in {"below_minimum", "above_maximum"} -> 6
      [] kind = "duplicated_key" -> 7
      [] OTHER -> 0

\* C23: the issue list is ordered by kind: missing columns, unexpected
\* columns, non-null, row count, allowed values, value range (for one
\* column below-minimum before above-maximum), unique key; and a second
\* call with the same table and expectation returns the same list.
C23_IssuesOrderedByKind ==
    Validated =>
        /\ \A p \in 1..Len(issues) : KindRank(issues[p].kind) \in 1..7
        /\ \A p, q \in 1..Len(issues) :
               p < q => KindRank(issues[p].kind) <= KindRank(issues[q].kind)
        /\ \A p, q \in 1..Len(issues) :
               (/\ issues[p].kind = "below_minimum"
                /\ issues[q].kind = "above_maximum"
                /\ issues[p].cols = issues[q].cols) => q = p + 1
        /\ issues = validate_schema(df_clean, config)

\* C23 witness: one table fails every check and the nine issues come in
\* the order of the checks
C23_Witness ==
    /\ Validated
    /\ [p \in 1..Len(issues) |-> issues[p].kind]
           = <<"missing_columns", "unexpected_columns", "non_null_missing",
               "null_values", "row_count", "outside_allowed",
               "below_minimum", "above_maximum", "duplicated_key">>

\* C22: every operation leaves its arguments as they were: the table read
\* from the source (the argument of standardize_column_names and of
\* basic_cleaning), the cleaned table (the argument of validate_schema and
\* of detect_numeric_anomalies), the arguments of a direct call, the series
\* (the argument of detect_anomalies), the tables standardize_column_names
\* has returned before, and the configuration never change once they exist;
\* results are held in other tables.
C22_ArgumentsUnchanged ==
    [][/\ config' = config
       /\ call' = call
       /\ pc # "start" => df_raw' = df_raw
       /\ Cleaned => df_clean' = df_clean
       /\ pc \in {"prepared", "scored"} => series' = series
       /\ \A p \in 1..Len(std_out) : std_out'[p] = std_out[p]]_vars

\* C22 witness: the pipeline has returned; the table it read still has the
\* names and the rows of the source file, which the cleaned table has not
C22_Witness ==
    /\ pc = "returned"
    /\ df_raw = disk_raw.table
    /\ df_raw.columns # df_clean.columns
    /\ NRows(df_raw) > NRows(df_clean)
    /\ df_clean = basic_cleaning(df_raw, config)

\* detect_anomalies has scored a series whose table and series are as they
\* were handed over
C22_SeriesIntact ==
    /\ pc = "scored"
    /\ call.fn = "prepare_daily_series"
    /\ call.df.columns = <<raw_d, raw_v, raw_s>>
    /\ series = prepare_daily_series(call.df, call.cfg)
    /\ Len(series.rows) = 2
    /\ scored.rows # series.rows

\* standardize_column_names has been called twice and the table it was
\* first given keeps its names
C22_NamesIntact ==
    /\ pc = "standardize"
    /\ Len(std_out) = 2
    /\ df_raw.columns # std_out[1].columns

\* the rows of one station in a table, in the order of the table
RowsFor(rows, station) == SelectSeq(rows, LAMBDA r : r.station = station)

OtherStation(station) == IF station = station_a THEN station_b ELSE station_a

\* C26: detect_anomalies scores each group by itself: a series that holds
\* the same rows for group g, whatever the other group holds and in
\* whatever order its rows come, gets the same scored rows for g (rolling
\* mean, rolling std, z-score, flag and label).
C26_GroupsScoredIndependently ==
    (pc = "called" /\ call.fn = "detect_anomalies") =>
        \A g \in {station_a, station_b} :
            \A f \in OtherChoices, order \in RowOrders :
                LET other == [grouped |-> TRUE,
                              rows |-> Arrange(
                                           RowsFor(call.series_df.rows, g),
                                           GroupRows(OtherStation(g), f),
                                           order)]
                IN  RowsFor(detect_anomalies(other, call.cfg).rows, g)
                        = RowsFor(scored.rows, g)

\* C26 witness: the rows of two groups came by date backwards, both groups
\* have three buckets, and the last bucket of group a is flagged from the
\* two buckets of a before it
C26_Witness ==
    /\ pc = "called"
    /\ call.fn = "detect_anomalies"
    /\ call.cfg.window = 3
    /\ [p \in 1..Len(call.series_df.rows) |->
            call.series_df.rows[p].station]
           = <<station_a, station_b, station_a, station_b, station_a,
               station_b>>
    /\ call.series_df.rows[1].date > call.series_df.rows[6].date
    /\ [p \in 1..3 |-> RowsFor(scored.rows, station_a)[p].value]
           = <<0, 0, 4>>
    /\ RowsFor(scored.rows, station_a)[3].rolling_mean
           = [defined |-> TRUE, num |-> 4, den |-> 3]
    /\ RowsFor(scored.rows, station_a)[3].anomaly_type = "spike"
    /\ \E p \in 1..3 : RowsFor(scored.rows, station_b)[p].value = 4

====
